---- MODULE Spec2Model ----
(***************************************************************************)
(* The hyperparameter-optimisation labs.  Lab00: the parameter grid        *)
(* generators (get_param_grid, get_random_grid), the data split and the    *)
(* training loop (load_mnist, train), and the grid-search and random-      *)
(* search cells (run_experiment, get_best_run).  Lab01: the Gaussian-      *)
(* process code (exponential_cov, conditional, predict) and its sampling   *)
(* cells.  The Ray lab: the trainable train_mnist and its train.  Also the *)
(* process-wide random generators the notebooks seed and draw from.        *)
(***************************************************************************)
EXTENDS Integers, Sequences, FiniteSets, TLC

VARIABLES
    params,       \* Lab00: the parameter space, an insertion-ordered dict
    pyRandom,     \* per notebook process: state of Python's `random` generator
    npRandom,     \* per notebook process: state of numpy's global generator
    torchRandom,  \* per notebook process: state of torch's global generator
    last,         \* per notebook process: the last kernel call and its outcome
    thr,          \* per thread of process 1: the kernel invocation it runs
    lab00,        \* Lab00: the globals of the search over the experiments
    lab01,        \* Lab01: the globals of the sequential sampling cells
    heap,         \* Lab00: the dict objects a grid call has built, by identity
    trial         \* Ray lab: the trial that runs train_mnist

vars ==
    <<params, pyRandom, npRandom, torchRandom, last, thr, lab00, lab01, heap, trial>>

(***************************************************************************)
(* Bounds of the model.                                                    *)
(***************************************************************************)
MaxParams == 2      \* parameters in a space
MaxCand == 2        \* candidates per parameter
MaxN == 2           \* largest sample count passed to get_random_grid
MaxObs == 1         \* observations passed to the Lab01 kernels by a thread
MaxX == 2           \* points in a list passed to a Lab01 kernel on its own
MaxExp == 4         \* experiments handed to get_best_run
FloatExp == 8       \* a finite float lies below 2^FloatExp (2^1024 for a double)
Res == 4            \* distinct values random() can return (2^53 in CPython)
MaxRows == 3        \* rows of a data array passed to a data loop
MaxEpochs == 2      \* largest max_epochs passed to train

\* The seed of the seeding cell.
SEED == 1234

\* The Ray lab: samples after which its train returns.
EPOCH_SIZE == 1024

(***************************************************************************)
(* Parameter spaces.  A dict is kept as the sequence of its items in       *)
(* insertion order; keys are distinct.  The candidate list of a parameter  *)
(* is a prefix of that parameter's pool; the pool of "c" repeats values.   *)
(***************************************************************************)
KeyPool == <<"a", "b", "c">>

KeyNames == {KeyPool[i] : i \in 1..MaxParams}

CandPool(k, i) ==
    CASE k = "a" -> i
      [] k = "b" -> 10 * i
      [] OTHER   -> (i + 1) \div 2

CandList(k, len) == [i \in 1..len |-> CandPool(k, i)]

KeyOrders ==
    UNION {{ks \in [1..m -> KeyNames] :
               \A i, j \in 1..m : i # j => ks[i] # ks[j]} : m \in 0..MaxParams}

Spaces ==
    UNION {{[i \in DOMAIN ks |-> [key |-> ks[i], vals |-> CandList(ks[i], lens[i])]] :
               lens \in [DOMAIN ks -> 0..MaxCand]} : ks \in KeyOrders}

\* The spaces whose parameters were inserted in the order of the pool.
PoolOrderSpaces ==
    {p \in Spaces : \A i, j \in DOMAIN p :
        i < j => \E a, b \in DOMAIN KeyPool : a < b /\ KeyPool[a] = p[i].key
                                                     /\ KeyPool[b] = p[j].key}

(***************************************************************************)
(* Outcomes of a call: a returned value or a raised exception.             *)
(***************************************************************************)
Ok(v) == [status |-> "ok", exc |-> "none", value |-> v]

Raise(e) == [status |-> "raise", exc |-> e, value |-> <<>>]

(***************************************************************************)
(* itertools.product over the value lists: result = [[]]; for each pool,    *)
(* result = [x + [y] for x in result for y in pool].                       *)
(***************************************************************************)
ProductExtendFirstFastest(result, pool) ==
    [i \in 1..(Len(result) * Len(pool)) |->
        Append(result[((i - 1) % Len(result)) + 1],
               pool[((i - 1) \div Len(result)) + 1])]

ProductExtend(result, pool) ==
    [i \in 1..(Len(result) * Len(pool)) |->
        Append(result[((i - 1) \div Len(pool)) + 1],
               pool[((i - 1) % Len(pool)) + 1])]

RECURSIVE ProductFold(_, _)
ProductFold(result, pools) ==
    IF pools = <<>> THEN result
    ELSE ProductFold(ProductExtend(result, Head(pools)), Tail(pools))

product(values) == ProductFold(<< <<>> >>, values)

\* A dict that gives every key the first value of the combination.
DictZipFirst(keys, v) == [k \in {keys[i] : i \in DOMAIN keys} |-> v[1]]

\* dict(zip(keys, v)): one entry per key; a repeated key keeps its last value.
DictZip(keys, v) ==
    [k \in {keys[i] : i \in DOMAIN keys} |->
        v[CHOOSE i \in DOMAIN keys :
              keys[i] = k /\ \A j \in DOMAIN keys : j > i => keys[j] # k]]

ItemKeys(p) == [i \in DOMAIN p |-> p[i].key]

ItemValues(p) == [i \in DOMAIN p |-> p[i].vals]

\* A grid that drops the combinations of the last candidate of the last parameter.
get_param_grid_short(p) ==
    IF Len(p) = 0 THEN Raise("ValueError")
    ELSE LET prod == product(ItemValues(p))
         IN  Ok([i \in 1..(Len(prod) - 1) |-> DictZip(ItemKeys(p), prod[i])])

\* Unpacking keys, values from the zipped items raises ValueError on an empty dict.
get_param_grid(p) ==
    IF Len(p) = 0 THEN Raise("ValueError")
    ELSE LET prod == product(ItemValues(p))
         IN  Ok([i \in DOMAIN prod |-> DictZip(ItemKeys(p), prod[i])])

(***************************************************************************)
(* The dict bound to params once a grid function has returned.  The bodies *)
(* read it through params.items(); zip, itertools.product and dict build   *)
(* new objects, and random.choices indexes the new list of Experiments: no *)
(* statement assigns into the dict or into one of its candidate lists.     *)
(***************************************************************************)
\* A body that consumes the dict as it reads it (popitem).
params_popitem(p) == IF Len(p) = 0 THEN p ELSE SubSeq(p, 1, Len(p) - 1)

params_after_call(p) == p

(***************************************************************************)
(* Random generators.  A generator's state is the cycle of values its      *)
(* random() will return, each standing for u / Res in [0, 1); a draw takes *)
(* the head and moves it to the end.  A generator seeded from the          *)
(* operating system's entropy starts in any state, one seeded with a       *)
(* number in the state that number fixes.  <<>> is the generator of a      *)
(* process that does not run.                                              *)
(***************************************************************************)
TapeLen == MaxN

Tapes == [1..TapeLen -> 0..(Res - 1)]

RECURSIVE Pow(_, _)
Pow(b, e) == IF e = 0 THEN 1 ELSE b * Pow(b, e - 1)

SeedState(s) == [i \in 1..TapeLen |-> (s \div Pow(Res, i - 1)) % Res]

\* A generator that returns its next value without consuming it.
AdvanceNone(rng) == rng

Advance(rng) == Append(Tail(rng), Head(rng))

Runs == {1, 2}

(***************************************************************************)
(* random.choices(population, k=k):                                        *)
(*   n = len(population)                                                   *)
(*   return [population[floor(random() * n)] for i in repeat(None, k)]     *)
(* repeat(None, k) raises TypeError for a k that is no integer, before any *)
(* draw, and yields nothing for a negative k.                              *)
(***************************************************************************)
IntArg(v) == [isInt |-> TRUE, val |-> v]

FloatArg(v) == [isInt |-> FALSE, val |-> v]

RECURSIVE ChoicesLoop(_, _, _, _)
ChoicesLoop(population, k, rng, acc) ==
    IF k <= 0 THEN [out |-> Ok(acc), rng |-> rng]
    ELSE LET i == (Head(rng) * Len(population)) \div Res
         IN  IF i + 1 > Len(population)
             THEN [out |-> Raise("IndexError"), rng |-> Advance(rng)]
             ELSE ChoicesLoop(population, k - 1, Advance(rng),
                              Append(acc, population[i + 1]))

\* random.sample in place of random.choices: draws without replacement.
RECURSIVE SampleLoop(_, _, _, _)
SampleLoop(pool, k, rng, acc) ==
    IF k <= 0 THEN [out |-> Ok(acc), rng |-> rng]
    ELSE LET i == (Head(rng) * Len(pool)) \div Res
         IN  SampleLoop([j \in 1..(Len(pool) - 1) |->
                            IF j <= i THEN pool[j] ELSE pool[j + 1]],
                        k - 1, Advance(rng), Append(acc, pool[i + 1]))

random_sample(population, k, rng) ==
    IF ~k.isInt THEN [out |-> Raise("TypeError"), rng |-> rng]
    ELSE IF k.val < 0 \/ k.val > Len(population)
         THEN [out |-> Raise("ValueError"), rng |-> rng]
         ELSE SampleLoop(population, k.val, rng, <<>>)

\* A loop that stops one draw early.
random_choices_first(population, k, rng) ==
    IF ~k.isInt THEN [out |-> Raise("TypeError"), rng |-> rng]
    ELSE ChoicesLoop(population, k.val - 1, rng, <<>>)

random_choices(population, k, rng) ==
    IF ~k.isInt THEN [out |-> Raise("TypeError"), rng |-> rng]
    ELSE ChoicesLoop(population, k.val, rng, <<>>)

\* experiments = get_param_grid(params); random.choices(experiments, k=n)
get_random_grid(p, n, rng) ==
    LET grid == get_param_grid(p)
    IN  IF grid.status = "raise" THEN [out |-> grid, rng |-> rng]
        ELSE random_choices(grid.value, n, rng)

(***************************************************************************)
(* Lab01.  A float is the exact fraction <<numerator, denominator>> it     *)
(* stands for, with a positive denominator and in lowest terms; rounding   *)
(* and underflow are left out, the range is not: a result of magnitude     *)
(* 2^FloatExp or more is an infinity.  The infinities are <<1, 0>> and     *)
(* <<-1, 0>>, and <<0, 0>> is NaN.  Points lie on the integers and         *)
(* theta = <<theta[0], m>> stands for theta[1] = 2 m ln 2, so that         *)
(* exp(-0.5 * theta[1] * d^2) is the fraction 1 / 2^(m d^2).               *)
(***************************************************************************)
Abs(n) == IF n < 0 THEN -n ELSE n

Sign(n) == IF n > 0 THEN 1 ELSE IF n < 0 THEN -1 ELSE 0

RECURSIVE Gcd(_, _)
Gcd(a, b) == IF b = 0 THEN a ELSE Gcd(b, a % b)

Inf == <<1, 0>>

NaN == <<0, 0>>

Finite(a) == a[2] # 0

\* The float of the quotient n / d, d >= 0.
Norm(n, d) ==
    IF d = 0 THEN <<Sign(n), 0>>
    ELSE LET g == Gcd(Abs(n), d)
         IN  IF (Abs(n) \div g) \div (d \div g) >= Pow(2, FloatExp)
             THEN <<Sign(n), 0>>
             ELSE <<n \div g, d \div g>>

FInt(n) == <<n, 1>>

FAdd(a, b) ==
    IF ~Finite(a) /\ ~Finite(b) THEN (IF a = b THEN a ELSE NaN)
    ELSE IF ~Finite(a) THEN a
    ELSE IF ~Finite(b) THEN b
    ELSE Norm(a[1] * b[2] + b[1] * a[2], a[2] * b[2])

FNeg(a) == <<-a[1], a[2]>>

FSub(a, b) == FAdd(a, FNeg(b))

FMul(a, b) == Norm(a[1] * b[1], a[2] * b[2])

FDiv(a, b) ==
    IF b[1] > 0 THEN Norm(a[1] * b[2], a[2] * b[1])
    ELSE IF b[1] < 0 THEN Norm(-(a[1] * b[2]), a[2] * (-b[1]))
    ELSE IF Finite(b) THEN Norm(a[1], 0)
    ELSE NaN

RECURSIVE FSum(_, _)
FSum(f, n) == IF n = 0 THEN FInt(0) ELSE FAdd(FSum(f, n - 1), f[n])

\* An nr x nc array; e[i][j] is its entry.
Mat(nr, nc, e) == [nr |-> nr, nc |-> nc, e |-> e]

\* theta[0] * np.exp(-0.5 * theta[1] * d**2)
KernelValue(d, theta) == FMul(theta[1], <<1, Pow(2, theta[2] * d * d)>>)

\* A kernel that measures the distance from x to twice y.
exponential_cov_skew(x, y, theta) ==
    Mat(Len(x), Len(y),
        [i \in 1..Len(x) |-> [j \in 1..Len(y) |-> KernelValue(x[i] - 2 * y[j], theta)]])

\* theta[0] * np.exp(-0.5 * theta[1] * np.subtract.outer(x, y)**2)
exponential_cov(x, y, theta) ==
    Mat(Len(x), Len(y),
        [i \in 1..Len(x) |-> [j \in 1..Len(y) |-> KernelValue(x[i] - y[j], theta)]])

Transpose(A) ==
    Mat(A.nc, A.nr, [j \in 1..A.nc |-> [i \in 1..A.nr |-> A.e[i][j]]])

\* A.dot(B) for arrays of matching shapes.
MatMul(A, B) ==
    Mat(A.nr, B.nc,
        [i \in 1..A.nr |-> [j \in 1..B.nc |->
            FSum([k \in 1..A.nc |-> FMul(A.e[i][k], B.e[k][j])], A.nc)]])

\* A.dot(v) for a one-dimensional v.
MatVec(A, v) ==
    [i \in 1..A.nr |-> FSum([k \in 1..A.nc |-> FMul(A.e[i][k], v[k])], A.nc)]

MatSub(A, B) ==
    Mat(A.nr, A.nc, [i \in 1..A.nr |-> [j \in 1..A.nc |-> FSub(A.e[i][j], B.e[i][j])]])

\* A without row r and column c.
Minor(A, r, c) ==
    Mat(A.nr - 1, A.nc - 1,
        [i \in 1..(A.nr - 1) |-> [j \in 1..(A.nc - 1) |->
            A.e[IF i < r THEN i ELSE i + 1][IF j < c THEN j ELSE j + 1]]])

RECURSIVE Det(_)
Det(A) ==
    IF A.nr = 0 THEN FInt(1)
    ELSE FSum([j \in 1..A.nc |->
                  FMul(IF j % 2 = 1 THEN A.e[1][j] ELSE FNeg(A.e[1][j]),
                       Det(Minor(A, 1, j)))], A.nc)

\* np.linalg.inv of a square array whose determinant is not zero.
Inverse(A) ==
    Mat(A.nr, A.nc,
        [i \in 1..A.nr |-> [j \in 1..A.nc |->
            FDiv(IF (i + j) % 2 = 0 THEN Det(Minor(A, j, i))
                 ELSE FNeg(Det(Minor(A, j, i))),
                 Det(A))]])

\* ndarray.squeeze(): the axes of length one are dropped.
SqueezeVec(v) == IF Len(v) = 1 THEN v[1] ELSE v

SqueezeMat(A) ==
    IF A.nr = 1 /\ A.nc = 1 THEN A.e[1][1]
    ELSE IF A.nr = 1 THEN A.e[1]
    ELSE IF A.nc = 1 THEN [i \in 1..A.nr |-> A.e[i][1]]
    ELSE A.e

\* A body whose sigma is the reduction term alone, Sigma_x left out.
conditional_reduction(x_new, x, y, theta) ==
    LET Sigma_xy == exponential_cov(x_new, x, theta)
        Sigma_y == exponential_cov(x, x, theta)
    IN  IF Det(Sigma_y) = FInt(0) THEN Raise("LinAlgError")
        ELSE IF Len(y) # Len(x) THEN Raise("ValueError")
        ELSE LET inv == Inverse(Sigma_y)
                 mu == MatVec(Transpose(MatMul(inv, Transpose(Sigma_xy))), y)
                 sigma == MatMul(Sigma_xy, MatMul(inv, Transpose(Sigma_xy)))
             IN  Ok(<<SqueezeVec(mu), SqueezeMat(sigma)>>)

(***************************************************************************)
(* conditional(x_new, x, y, params).  np.linalg.inv raises LinAlgError on  *)
(* a singular array and returns the empty array for an empty one; dot      *)
(* raises ValueError when y is not as long as x.                           *)
(***************************************************************************)
conditional(x_new, x, y, theta) ==
    LET Sigma_xy == exponential_cov(x_new, x, theta)
        Sigma_y == exponential_cov(x, x, theta)
        Sigma_x == exponential_cov(x_new, x_new, theta)
    IN  IF Det(Sigma_y) = FInt(0) THEN Raise("LinAlgError")
        ELSE IF Len(y) # Len(x) THEN Raise("ValueError")
        ELSE LET inv == Inverse(Sigma_y)
                 mu == MatVec(Transpose(MatMul(inv, Transpose(Sigma_xy))), y)
                 sigma == MatSub(Sigma_x,
                                 MatMul(Sigma_xy, MatMul(inv, Transpose(Sigma_xy))))
             IN  Ok(<<SqueezeVec(mu), SqueezeMat(sigma)>>)

\* The array calls the body of conditional makes, in order, up to the one
\* that raises.  The body has no branch.
conditional_calls(x_new, x, y, theta) ==
    LET covs == <<"exponential_cov", "exponential_cov", "exponential_cov">>
        out == conditional(x_new, x, y, theta)
    IN  IF out.exc = "LinAlgError" THEN covs \o <<"inv">>
        ELSE IF out.exc = "ValueError" THEN covs \o <<"inv", "dot", "dot">>
        ELSE covs \o <<"inv", "dot", "dot", "inv", "dot", "dot", "squeeze", "squeeze">>

\* np.dot of two one-dimensional arrays, and of one with a two-dimensional.
VecDot(u, v) == FSum([i \in 1..Len(u) |-> FMul(u[i], v[i])], Len(u))

VecMat(v, A) ==
    [j \in 1..A.nc |-> FSum([i \in 1..A.nr |-> FMul(v[i], A.e[i][j])], A.nr)]

\* A body that multiplies by sigma where predict multiplies by its inverse.
predict_no_inverse(x, data, theta, sigma, t) ==
    LET k == [i \in 1..Len(data) |-> KernelValue(x - data[i], theta)]
    IN  IF Det(sigma) = FInt(0) THEN Raise("LinAlgError")
        ELSE IF Len(k) # sigma.nr \/ Len(t) # sigma.nc THEN Raise("ValueError")
        ELSE Ok(<<VecDot(VecMat(k, sigma), t),
                  FSub(KernelValue(0, theta), VecDot(VecMat(k, sigma), k))>>)

(***************************************************************************)
(* predict(x, data, kernel, params, sigma, t) with exponential_cov as the  *)
(* kernel and a square sigma: x is one point, k the list of its            *)
(* covariances with the points of data.  np.dot raises ValueError when k   *)
(* or t is not as long as sigma is wide.                                   *)
(***************************************************************************)
predict(x, data, theta, sigma, t) ==
    LET k == [i \in 1..Len(data) |-> KernelValue(x - data[i], theta)]
    IN  IF Det(sigma) = FInt(0) THEN Raise("LinAlgError")
        ELSE IF Len(k) # sigma.nr \/ Len(t) # sigma.nc THEN Raise("ValueError")
        ELSE LET Sinv == Inverse(sigma)
             IN  Ok(<<VecDot(VecMat(k, Sinv), t),
                      FSub(KernelValue(0, theta), VecDot(VecMat(k, Sinv), k))>>)

(***************************************************************************)
(* The globals of the notebooks' later cells before those cells have run.  *)
(* A float array of the Lab01 cells is kept as the call that computes it   *)
(* (the kernels are functions of their arguments): fn names the function   *)
(* or the component of its result, args are the arguments.                 *)
(***************************************************************************)
Call(fn, args) == [fn |-> fn, args |-> args]

Unset == Call("unset", <<>>)

\* The children of Net that hold weights, and the weights Task 1 left in them:
\* weights are named by what wrote them last (by) and during which Experiment
\* of the running search cell (exp, 0 before the first).  run_hist keeps, for
\* every accuracy the loop has obtained, the iteration it came from, the
\* arguments train was called with and the partition test was called on.
ParamLayers == {"conv1", "conv2", "fc"}

Weights(by, k) == [by |-> by, exp |-> k]

NoSearch ==
    [experiments |-> <<>>, acc_hist |-> <<>>, best |-> Raise("NameError"),
     cell |-> "none", pc |-> "start", it |-> 0, exp_counter |-> 0, exp |-> <<>>,
     net |-> [l \in ParamLayers |-> Weights("train", 0)],
     optimizer |-> Raise("NameError"), run |-> <<>>, acc |-> [value |-> <<>>, on |-> "none", net |-> <<>>],
     calls |-> <<>>, run_hist |-> <<>>]

NotRun ==
    [pc |-> 0, theta |-> <<>>, sigma_0 |-> Unset, x |-> <<>>, y |-> <<>>,
     sigma_1 |-> Unset, x_pred |-> <<>>, predictions |-> <<>>, m |-> Unset,
     s |-> Unset, y2 |-> <<>>, sigma_2 |-> Unset, x_more |-> <<>>, mu |-> Unset,
     y_more |-> <<>>, sigma_new |-> Unset]

\* The Ray lab before a trial has started: train_mnist has not been entered.
NoTrial ==
    [pc |-> "none", config |-> <<>>, it |-> 0, i |-> 0, steps |-> 0, acc |-> <<>>,
     log |-> <<>>]

(***************************************************************************)
(* The notebook processes.  Process 1 runs in every specification; its     *)
(* seeding cell has run, and its `random` generator holds the entropy it   *)
(* was given at import.                                                    *)
(***************************************************************************)
NArgs == {IntArg(v) : v \in (-1)..MaxN} \cup {FloatArg(1)}

NoCall == [op |-> "none", n |-> IntArg(0), out |-> Ok(<<>>)]

Started(r) == pyRandom[r] # <<>>

Threads == {1, 2}

\* What threads pass to the Lab01 kernels: the first k points 0, 1, ... with
\* the outputs 1, 2, ..., and the next point as the query.
GPInputs ==
    {[x_new |-> <<k>>, x |-> [i \in 1..k |-> i - 1], y |-> [i \in 1..k |-> FInt(i)],
      theta |-> <<FInt(1), 1>>] : k \in 0..MaxObs}

\* The sample counts threads pass to get_random_grid.
ParNArgs == {IntArg(v) : v \in 0..MaxN}

NoGP == [x_new |-> <<>>, x |-> <<>>, y |-> <<>>, theta |-> <<FInt(0), 0>>]

Idle ==
    [pc |-> "idle", op |-> "none", n |-> IntArg(0), gp |-> NoGP, rng0 |-> <<>>,
     population |-> <<>>, acc |-> <<>>, calls |-> <<>>, out |-> Ok(<<>>)]

Init ==
    /\ params \in PoolOrderSpaces
    /\ pyRandom \in {[r \in Runs |-> IF r = 1 THEN t ELSE <<>>] : t \in Tapes}
    /\ npRandom = [r \in Runs |-> IF r = 1 THEN SeedState(SEED) ELSE <<>>]
    /\ torchRandom = [r \in Runs |-> IF r = 1 THEN SeedState(SEED) ELSE <<>>]
    /\ last = [r \in Runs |-> NoCall]
    /\ thr = [t \in Threads |-> Idle]
    /\ lab00 = NoSearch
    /\ lab01 = NotRun
    /\ heap = <<>>
    /\ trial = NoTrial

\* experiments = get_param_grid(params)
CallGetParamGrid(r) ==
    /\ Started(r)
    /\ last' = [last EXCEPT ![r] = [op |-> "get_param_grid", n |-> IntArg(0),
                                     out |-> get_param_grid(params)]]
    /\ params' = params_after_call(params)
    /\ UNCHANGED <<pyRandom, npRandom, torchRandom, thr, lab00, lab01, heap,
                   trial>>

\* experiments = get_random_grid(params, n)
CallGetRandomGrid(r, n) ==
    /\ Started(r)
    /\ LET res == get_random_grid(params, n, pyRandom[r])
       IN  /\ last' = [last EXCEPT ![r] = [op |-> "get_random_grid", n |-> n,
                                            out |-> res.out]]
           /\ pyRandom' = [pyRandom EXCEPT ![r] = res.rng]
    /\ params' = params_after_call(params)
    /\ UNCHANGED <<npRandom, torchRandom, thr, lab00, lab01, heap, trial>>

Next ==
    \E r \in Runs :
        \/ CallGetParamGrid(r)
        \/ \E n \in NArgs : CallGetRandomGrid(r, n)

Spec == Init /\ [][Next]_vars

(***************************************************************************)
(* The grid cell of Lab00 alone, on the spaces of every insertion order.   *)
(***************************************************************************)
InitGrid ==
    /\ params \in Spaces
    /\ pyRandom \in {[r \in Runs |-> IF r = 1 THEN t ELSE <<>>] : t \in Tapes}
    /\ npRandom = [r \in Runs |-> IF r = 1 THEN SeedState(SEED) ELSE <<>>]
    /\ torchRandom = [r \in Runs |-> IF r = 1 THEN SeedState(SEED) ELSE <<>>]
    /\ last = [r \in Runs |-> NoCall]
    /\ thr = [t \in Threads |-> Idle]
    /\ lab00 = NoSearch
    /\ lab01 = NotRun
    /\ heap = <<>>
    /\ trial = NoTrial

NextGrid == \E r \in Runs : CallGetParamGrid(r)

SpecGrid == InitGrid /\ [][NextGrid]_vars

(***************************************************************************)
(* Two runs of Lab00 on the same space.  Either process has executed the   *)
(* seeding cell, holds a `random` generator seeded from entropy, and makes *)
(* one call.                                                               *)
(***************************************************************************)
InitRuns ==
    /\ params \in PoolOrderSpaces
    /\ pyRandom \in [Runs -> Tapes]
    /\ npRandom = [r \in Runs |-> SeedState(SEED)]
    /\ torchRandom = [r \in Runs |-> SeedState(SEED)]
    /\ last = [r \in Runs |-> NoCall]
    /\ thr = [t \in Threads |-> Idle]
    /\ lab00 = NoSearch
    /\ lab01 = NotRun
    /\ heap = <<>>
    /\ trial = NoTrial

NextRuns ==
    \E r \in Runs :
        /\ last[r] = NoCall
        /\ \/ CallGetParamGrid(r)
           \/ \E n \in NArgs : CallGetRandomGrid(r, n)

SpecRuns == InitRuns /\ [][NextRuns]_vars

(***************************************************************************)
(* Two kernel invocations in two threads of process 1, interleaved at the  *)
(* points where the interpreter can switch threads.  A kernel that touches *)
(* no shared state runs in one step; get_random_grid builds the grid on    *)
(* entry and then takes one step per iteration of the comprehension inside *)
(* random.choices, each a call of random() on the process's generator.     *)
(***************************************************************************)
ParSpaces == {p \in Spaces : Len(p) = 1 /\ p[1].key = "a"}

InitPar ==
    /\ params \in ParSpaces
    /\ pyRandom \in {[r \in Runs |-> IF r = 1 THEN t ELSE <<>>] : t \in Tapes}
    /\ npRandom = [r \in Runs |-> IF r = 1 THEN SeedState(SEED) ELSE <<>>]
    /\ torchRandom = [r \in Runs |-> IF r = 1 THEN SeedState(SEED) ELSE <<>>]
    /\ last = [r \in Runs |-> NoCall]
    /\ thr = [t \in Threads |-> Idle]
    /\ lab00 = NoSearch
    /\ lab01 = NotRun
    /\ heap = <<>>
    /\ trial = NoTrial

Finish(t, op, n, gp, calls, out) ==
    thr' = [thr EXCEPT ![t] = [@ EXCEPT !.pc = "done", !.op = op, !.n = n,
                                        !.gp = gp, !.rng0 = pyRandom[1],
                                        !.calls = calls, !.out = out]]

ThreadGetParamGrid(t) ==
    /\ thr[t].pc = "idle"
    /\ Finish(t, "get_param_grid", IntArg(0), NoGP, <<>>, get_param_grid(params))
    /\ params' = params_after_call(params)
    /\ UNCHANGED <<pyRandom, npRandom, torchRandom, last, lab00, lab01, heap,
                   trial>>

ThreadExponentialCov(t, g) ==
    /\ thr[t].pc = "idle"
    /\ Finish(t, "exponential_cov", IntArg(0), g, <<>>,
              Ok(exponential_cov(g.x_new, g.x, g.theta).e))
    /\ UNCHANGED <<params, pyRandom, npRandom, torchRandom, last, lab00,
                   lab01, heap, trial>>

ThreadConditional(t, g) ==
    /\ thr[t].pc = "idle"
    /\ Finish(t, "conditional", IntArg(0), g,
              conditional_calls(g.x_new, g.x, g.y, g.theta),
              conditional(g.x_new, g.x, g.y, g.theta))
    /\ UNCHANGED <<params, pyRandom, npRandom, torchRandom, last, lab00,
                   lab01, heap, trial>>

\* predict for the one point of g.x_new, with sigma computed from g.x.
ThreadPredict(t, g) ==
    /\ thr[t].pc = "idle"
    /\ Finish(t, "predict", IntArg(0), g, <<>>,
              predict(g.x_new[1], g.x, g.theta,
                      exponential_cov(g.x, g.x, g.theta), g.y))
    /\ UNCHANGED <<params, pyRandom, npRandom, torchRandom, last, lab00,
                   lab01, heap, trial>>

\* get_random_grid up to the comprehension of random.choices.
ThreadEnterRandomGrid(t, n) ==
    /\ thr[t].pc = "idle"
    /\ LET grid == get_param_grid(params)
       IN  IF grid.status = "raise"
           THEN Finish(t, "get_random_grid", n, NoGP, <<>>, grid)
           ELSE IF ~n.isInt
           THEN Finish(t, "get_random_grid", n, NoGP, <<>>, Raise("TypeError"))
           ELSE thr' = [thr EXCEPT ![t] = [@ EXCEPT !.pc = "draw",
                                                    !.op = "get_random_grid", !.n = n,
                                                    !.rng0 = pyRandom[1],
                                                    !.population = grid.value]]
    /\ params' = params_after_call(params)
    /\ UNCHANGED <<pyRandom, npRandom, torchRandom, last, lab00, lab01, heap,
                   trial>>

\* One iteration: population[floor(random() * n)].
ThreadDraw(t) ==
    /\ thr[t].pc = "draw"
    /\ Len(thr[t].acc) < thr[t].n.val
    /\ LET i == (Head(pyRandom[1]) * Len(thr[t].population)) \div Res
       IN  thr' = [thr EXCEPT ![t] =
                      IF i + 1 > Len(thr[t].population)
                      THEN [@ EXCEPT !.pc = "done", !.out = Raise("IndexError")]
                      ELSE [@ EXCEPT !.acc = Append(@, thr[t].population[i + 1])]]
    /\ pyRandom' = [pyRandom EXCEPT ![1] = Advance(@)]
    /\ UNCHANGED <<params, npRandom, torchRandom, last, lab00, lab01, heap,
                   trial>>

\* The comprehension is exhausted: the list is returned.
ThreadReturn(t) ==
    /\ thr[t].pc = "draw"
    /\ Len(thr[t].acc) >= thr[t].n.val
    /\ thr' = [thr EXCEPT ![t] = [@ EXCEPT !.pc = "done", !.out = Ok(thr[t].acc)]]
    /\ UNCHANGED <<params, pyRandom, npRandom, torchRandom, last, lab00,
                   lab01, heap, trial>>

NextPar ==
    \E t \in Threads :
        \/ ThreadGetParamGrid(t)
        \/ \E g \in GPInputs : ThreadExponentialCov(t, g)
        \/ \E g \in GPInputs : ThreadConditional(t, g)
        \/ \E n \in ParNArgs : ThreadEnterRandomGrid(t, n)
        \/ ThreadDraw(t)
        \/ ThreadReturn(t)

SpecPar == InitPar /\ [][NextPar]_vars

(***************************************************************************)
(* The kernels of Lab01 on their own: one thread of a process that runs    *)
(* Lab01 (no parameter space, no generator of Lab00) calls exponential_cov *)
(* or conditional once, or predict for a single query point with the       *)
(* covariance of the observed x.  The observed x is any list of up to MaxX points;  *)
(* the query x_new is x itself, a single point or the first points of the  *)
(* grid.  The outputs y are a prefix of OutPool, as long as x or one       *)
(* longer.  theta[0] is 0, 1, 2 or, with at most one observation and one   *)
(* query point, the small positive float 2^-(FloatExp+1); theta[1] is 0 or *)
(* 2 ln 2.                                                                 *)
(***************************************************************************)
Points == {0, 1, 2}

PointLists == UNION {[1..k -> Points] : k \in 0..MaxX}

OutPool == <<<<1, 2>>, <<-1, 1>>, <<3, 2>>, <<2, 1>>, <<-1, 2>>>>

OutList(k) == [i \in 1..k |-> OutPool[i]]

Thetas == {<<FInt(t0), m>> : t0 \in {0, 1, 2}, m \in {0, 1}}

SmallTheta == <<<<1, Pow(2, FloatExp + 1)>>, 1>>

QueryLists(o) ==
    ({o} \cup {<<p>> : p \in Points} \cup {[i \in 1..k |-> i - 1] : k \in 1..MaxX})
        \ {<<>>}

KernelInputs ==
    UNION {{[x_new |-> q, x |-> o, y |-> OutList(Len(o) + more), theta |-> th] :
               q \in QueryLists(o), more \in {0, 1}, th \in Thetas} : o \in PointLists}
    \cup
    {[x_new |-> q, x |-> o, y |-> OutList(Len(o)), theta |-> SmallTheta] :
        q \in {<<p>> : p \in Points}, o \in {<<>>} \cup {<<p>> : p \in Points}}

InitKernel ==
    /\ params = <<>>
    /\ pyRandom = [r \in Runs |-> <<>>]
    /\ npRandom = [r \in Runs |-> <<>>]
    /\ torchRandom = [r \in Runs |-> <<>>]
    /\ last = [r \in Runs |-> NoCall]
    /\ thr = [t \in Threads |-> Idle]
    /\ lab00 = NoSearch
    /\ lab01 = NotRun
    /\ heap = <<>>
    /\ trial = NoTrial

NextKernel ==
    \E g \in KernelInputs :
        \/ ThreadExponentialCov(1, g)
        \/ ThreadConditional(1, g)
        \/ Len(g.x_new) = 1 /\ ThreadPredict(1, g)

SpecKernel == InitKernel /\ [][NextKernel]_vars

(***************************************************************************)
(* get_best_run(acc_hist, experiments) of Lab00.  An accuracy is the       *)
(* fraction correct / number of examples that test() returns.  max returns *)
(* the first of the largest elements and raises ValueError on an empty     *)
(* list; list.index returns the offset of the first element equal to its   *)
(* argument.                                                               *)
(***************************************************************************)
FLess(a, b) == a[1] * b[2] < b[1] * a[2]

RECURSIVE MaxLoop(_, _, _)
MaxLoop(l, i, best) ==
    IF i > Len(l) THEN best
    ELSE MaxLoop(l, i + 1, IF FLess(best, l[i]) THEN l[i] ELSE best)

py_max(l) == IF Len(l) = 0 THEN Raise("ValueError") ELSE Ok(MaxLoop(l, 2, l[1]))

\* The offset of the last element equal to v.
list_rindex(l, v) ==
    IF \A i \in DOMAIN l : l[i] # v THEN Raise("ValueError")
    ELSE Ok((CHOOSE i \in DOMAIN l : l[i] = v /\ \A j \in DOMAIN l : j > i => l[j] # v) - 1)

list_index(l, v) ==
    IF \A i \in DOMAIN l : l[i] # v THEN Raise("ValueError")
    ELSE Ok((CHOOSE i \in DOMAIN l : l[i] = v /\ \A j \in DOMAIN l : j < i => l[j] # v) - 1)

get_best_run(acc_hist, experiments) ==
    LET highest_acc == py_max(acc_hist)
    IN  IF highest_acc.status = "raise" THEN highest_acc
        ELSE LET highest_acc_idx == list_index(acc_hist, highest_acc.value)
             IN  IF highest_acc_idx.status = "raise" THEN highest_acc_idx
                 ELSE IF highest_acc_idx.value + 1 > Len(experiments)
                 THEN Raise("IndexError")
                 ELSE Ok(<<highest_acc.value, experiments[highest_acc_idx.value + 1]>>)

(***************************************************************************)
(* The end of the search cell of Lab00: the loop has appended one accuracy *)
(* per Experiment of the grid to acc_hist, and get_best_run is called on   *)
(* the two lists.  `random` is imported by a later cell: its generator is  *)
(* kept in one state.                                                      *)
(***************************************************************************)
Accs == {<<0, 1>>, <<1, 3>>, <<2, 3>>, <<1, 1>>}

SearchSpaces ==
    {p \in PoolOrderSpaces : Len(p) > 0 /\ Len(get_param_grid(p).value) <= MaxExp}

InitSearch ==
    /\ params \in SearchSpaces
    /\ pyRandom = [r \in Runs |-> IF r = 1 THEN [i \in 1..TapeLen |-> 0] ELSE <<>>]
    /\ npRandom = [r \in Runs |-> IF r = 1 THEN SeedState(SEED) ELSE <<>>]
    /\ torchRandom = [r \in Runs |-> IF r = 1 THEN SeedState(SEED) ELSE <<>>]
    /\ last = [r \in Runs |-> NoCall]
    /\ thr = [t \in Threads |-> Idle]
    /\ lab00 \in {[NoSearch EXCEPT !.experiments = get_param_grid(params).value,
                                      !.acc_hist = h, !.pc = "best"] :
                      h \in [1..Len(get_param_grid(params).value) -> Accs]}
    /\ lab01 = NotRun
    /\ heap = <<>>
    /\ trial = NoTrial

\* highest_acc, best_params = get_best_run(acc_hist, experiments)
CallGetBestRun ==
    /\ lab00.pc = "best"
    /\ lab00.best = Raise("NameError")
    /\ lab00' = [lab00 EXCEPT !.best = get_best_run(lab00.acc_hist, lab00.experiments),
                              !.pc = "done"]
    /\ UNCHANGED <<params, pyRandom, npRandom, torchRandom, last, thr, lab01,
                   heap, trial>>

NextSearch == CallGetBestRun

SpecSearch == InitSearch /\ [][NextSearch]_vars

(***************************************************************************)
(* Lab01, the sequential sampling cells, run once from top to bottom.  The *)
(* literals are the notebook's; x_pred is the first and the last of its    *)
(* 1000 points.  np.random.normal and np.random.multivariate_normal return *)
(* any float: a draw is any element of Draws.  The covariances of distinct *)
(* points are nonsingular and the variances passed as scale are positive,  *)
(* so that no cell raises.                                                 *)
(***************************************************************************)
Theta == <<1, 10>>

XStart == <<FInt(1)>>

XNext == <<-7, 10>>

XMore == <<<<-21, 10>>, <<-3, 2>>, <<3, 10>>, <<9, 5>>, <<5, 2>>>>

XPred == <<FInt(-3), FInt(3)>>

Draws == {<<1, 2>>, <<-1, 1>>}

\* list.insert(0, v) in place of list.append(v).
list_insert0(l, v) == <<v>> \o l

\* l.append(v)
list_append(l, v) == Append(l, v)

\* A batch that extends the list and then repeats its first element.
list_extend_again(l, more) == (l \o more) \o <<l[1]>>

\* l += more
list_extend(l, more) == l \o more

\* [predict(i, x, exponential_cov, theta, sigma, y) for i in x_pred]
Predictions(xs, data, theta, sigma, t) ==
    [i \in DOMAIN xs |-> Call("predict", <<xs[i], data, theta, sigma, t>>)]

\* theta = [1, 10]; sigma_0 = exponential_cov(0, 0, theta)
CellPrior(nb) ==
    [nb EXCEPT !.pc = 1, !.theta = Theta,
               !.sigma_0 = Call("exponential_cov", <<FInt(0), FInt(0), Theta>>)]

\* x = [1.]; y = [np.random.normal(scale=sigma_0)]
CellStart(nb, y0) == [nb EXCEPT !.pc = 2, !.x = XStart, !.y = <<y0>>]

\* sigma_1 = exponential_cov(x, x, theta); x_pred = ...; predictions = [...]
CellPredict1(nb) ==
    LET sigma == Call("exponential_cov", <<nb.x, nb.x, nb.theta>>)
    IN  [nb EXCEPT !.pc = 3, !.sigma_1 = sigma, !.x_pred = XPred,
                   !.predictions = Predictions(XPred, nb.x, nb.theta, sigma, nb.y)]

\* m, s = conditional([-0.7], x, y, theta); y2 = np.random.normal(m, s)
CellSample2(nb, d) ==
    [nb EXCEPT !.pc = 4,
               !.m = Call("conditional[0]", <<<<XNext>>, nb.x, nb.y, nb.theta>>),
               !.s = Call("conditional[1]", <<<<XNext>>, nb.x, nb.y, nb.theta>>),
               !.y2 = d]

\* The cell with predict handed sigma_1, the array of the cell before.
CellAppend2Stale(nb) ==
    LET x1 == list_append(nb.x, XNext)
        y1 == list_append(nb.y, nb.y2)
        sigma == Call("exponential_cov", <<x1, x1, nb.theta>>)
    IN  [nb EXCEPT !.pc = 5, !.x = x1, !.y = y1, !.sigma_2 = sigma,
                   !.predictions = Predictions(nb.x_pred, x1, nb.theta, nb.sigma_1, y1)]

\* x.append(-0.7); y.append(y2); sigma_2 = exponential_cov(x, x, theta);
\* predictions = [predict(i, x, exponential_cov, theta, sigma_2, y) for i in x_pred]
CellAppend2(nb) ==
    LET x1 == list_append(nb.x, XNext)
        y1 == list_append(nb.y, nb.y2)
        sigma == Call("exponential_cov", <<x1, x1, nb.theta>>)
    IN  [nb EXCEPT !.pc = 5, !.x = x1, !.y = y1, !.sigma_2 = sigma,
                   !.predictions = Predictions(nb.x_pred, x1, nb.theta, sigma, y1)]

\* x_more = [...]; mu, s = conditional(x_more, x, y, theta);
\* y_more = np.random.multivariate_normal(mu, s)
CellSampleMore(nb, ds) ==
    [nb EXCEPT !.pc = 6, !.x_more = XMore,
               !.mu = Call("conditional[0]", <<XMore, nb.x, nb.y, nb.theta>>),
               !.s = Call("conditional[1]", <<XMore, nb.x, nb.y, nb.theta>>),
               !.y_more = ds]

\* x += x_more; y += y_more.tolist(); sigma_new = exponential_cov(x, x, theta);
\* predictions = [predict(i, x, exponential_cov, theta, sigma_new, y) for i in x_pred]
CellAppendMore(nb) ==
    LET x1 == list_extend(nb.x, nb.x_more)
        y1 == list_extend(nb.y, nb.y_more)
        sigma == Call("exponential_cov", <<x1, x1, nb.theta>>)
    IN  [nb EXCEPT !.pc = 7, !.x = x1, !.y = y1, !.sigma_new = sigma,
                   !.predictions = Predictions(nb.x_pred, x1, nb.theta, sigma, y1)]

RunPrior ==
    /\ lab01.pc = 0
    /\ lab01' = CellPrior(lab01)
    /\ UNCHANGED <<params, pyRandom, npRandom, torchRandom, last, thr, lab00,
                   heap, trial>>

RunStart ==
    /\ lab01.pc = 1
    /\ \E y0 \in Draws : lab01' = CellStart(lab01, y0)
    /\ UNCHANGED <<params, pyRandom, npRandom, torchRandom, last, thr, lab00,
                   heap, trial>>

RunPredict1 ==
    /\ lab01.pc = 2
    /\ lab01' = CellPredict1(lab01)
    /\ UNCHANGED <<params, pyRandom, npRandom, torchRandom, last, thr, lab00,
                   heap, trial>>

RunSample2 ==
    /\ lab01.pc = 3
    /\ \E d \in Draws : lab01' = CellSample2(lab01, d)
    /\ UNCHANGED <<params, pyRandom, npRandom, torchRandom, last, thr, lab00,
                   heap, trial>>

RunAppend2 ==
    /\ lab01.pc = 4
    /\ lab01' = CellAppend2(lab01)
    /\ UNCHANGED <<params, pyRandom, npRandom, torchRandom, last, thr, lab00,
                   heap, trial>>

RunSampleMore ==
    /\ lab01.pc = 5
    /\ \E ds \in [DOMAIN XMore -> Draws] : lab01' = CellSampleMore(lab01, ds)
    /\ UNCHANGED <<params, pyRandom, npRandom, torchRandom, last, thr, lab00,
                   heap, trial>>

RunAppendMore ==
    /\ lab01.pc = 6
    /\ lab01' = CellAppendMore(lab01)
    /\ UNCHANGED <<params, pyRandom, npRandom, torchRandom, last, thr, lab00,
                   heap, trial>>

NextLab01 ==
    \/ RunPrior
    \/ RunStart
    \/ RunPredict1
    \/ RunSample2
    \/ RunAppend2
    \/ RunSampleMore
    \/ RunAppendMore

SpecLab01 == InitKernel /\ [][NextLab01]_vars

(***************************************************************************)
(* The search cells of Lab00.  Task 1 has built and trained net; params is *)
(* a space over the five parameters of the notebook, each with a prefix of *)
(* the candidate list of Task 3 (learning rates and momenta as fractions,  *)
(* optimizers and the loss by name), and small enough for the grid to hold *)
(* at most MaxExp Experiments.  Either search cell is then run: it builds  *)
(* its experiments list and loops over it, calling run_experiment with the *)
(* data partitions its source names.  The partitions are kept by name,     *)
(* weights by what wrote them; test() returns any accuracy of HoldoutAccs. *)
(* run_experiment is followed statement by statement; the timing and the   *)
(* prints of the cell are left out.                                        *)
(***************************************************************************)
TaskKeys == <<"learning_rate", "batch_size", "momentum", "optimizer", "loss">>

TaskPool(k) ==
    CASE k = "learning_rate" -> <<<<1, 10>>, <<1, 100>>, <<1, 1000>>, <<1, 10000>>>>
      [] k = "batch_size"    -> <<10, 20, 50, 100>>
      [] k = "momentum"      -> <<<<1, 2>>, <<9, 10>>, <<1, 1>>>>
      [] k = "optimizer"     -> <<"SGD", "Adagrad">>
      [] OTHER               -> <<"CrossEntropyLoss">>

TaskSpaces ==
    {p \in {[i \in DOMAIN TaskKeys |->
                [key |-> TaskKeys[i],
                 vals |-> SubSeq(TaskPool(TaskKeys[i]), 1, lens[i])]] :
                lens \in {l \in [DOMAIN TaskKeys -> 1..MaxCand] :
                             \A i \in DOMAIN TaskKeys :
                                 l[i] <= Len(TaskPool(TaskKeys[i]))}} :
        Len(product(ItemValues(p))) <= MaxExp}

HoldoutAccs == {<<1, 3>>, <<2, 3>>}

\* The holdout arrays the loop of a search cell passes to run_experiment.
Holdout(cell) == IF cell = "grid" THEN "test" ELSE "valid"

\* An optimizer that is given the momentum whatever its class.
run_optimizer_momentum(exp) ==
    [cls |-> exp["optimizer"],
     kwargs |-> [lr |-> exp["learning_rate"], momentum |-> exp["momentum"]]]

\* The optimizer run_experiment builds: its class and its keyword arguments.
run_optimizer(exp) ==
    IF exp["optimizer"] = "SGD"
    THEN [cls |-> "SGD",
          kwargs |-> [lr |-> exp["learning_rate"], momentum |-> exp["momentum"]]]
    ELSE [cls |-> exp["optimizer"], kwargs |-> [lr |-> exp["learning_rate"]]]

\* The arguments of run_experiment's call of train that come from exp.
run_train_args(exp, optimizer) ==
    [batch_size |-> exp["batch_size"], loss_crierion |-> exp["loss"],
     optimizer |-> optimizer]

\* The children of Net, in the order __init__ assigns them, and those whose
\* class defines reset_parameters (Conv2d and Linear; MaxPool2d does not).
NetChildren == <<"conv1", "pool1", "conv2", "pool2", "fc">>

HasResetParameters(l) == l \in {"conv1", "conv2", "fc"}

\* A reset that leaves the fully connected layer as it is.
Net_reset_convs(net, k) ==
    [l \in DOMAIN net |->
        IF l \in {"conv1", "conv2"} THEN Weights("reset", k) ELSE net[l]]

\* Net.reset(): every child that has reset_parameters draws new weights.
Net_reset(net, k) ==
    [l \in DOMAIN net |->
        IF \E i \in DOMAIN NetChildren : NetChildren[i] = l /\ HasResetParameters(l)
        THEN Weights("reset", k) ELSE net[l]]

\* train(): the optimizer holds net.parameters() and steps on all of them.
Net_train(net, k) == [l \in DOMAIN net |-> Weights("train", k)]

InitCells ==
    /\ params \in TaskSpaces
    /\ pyRandom \in {[r \in Runs |-> IF r = 1 THEN t ELSE <<>>] : t \in Tapes}
    /\ npRandom = [r \in Runs |-> IF r = 1 THEN SeedState(SEED) ELSE <<>>]
    /\ torchRandom = [r \in Runs |-> IF r = 1 THEN SeedState(SEED) ELSE <<>>]
    /\ last = [r \in Runs |-> NoCall]
    /\ thr = [t \in Threads |-> Idle]
    /\ lab00 = NoSearch
    /\ lab01 = NotRun
    /\ heap = <<>>
    /\ trial = NoTrial

\* experiments = get_param_grid(params); exp_counter = 0; acc_hist = []
StartGridSearch ==
    /\ lab00.pc = "start"
    /\ lab00' = [lab00 EXCEPT !.cell = "grid",
                              !.experiments = get_param_grid(params).value,
                              !.exp_counter = 0, !.acc_hist = <<>>,
                              !.run_hist = <<>>, !.it = 0, !.pc = "for"]
    /\ params' = params_after_call(params)
    /\ UNCHANGED <<pyRandom, npRandom, torchRandom, last, thr, lab01, heap,
                   trial>>

\* experiments = get_random_grid(params, 16); exp_counter = 0; acc_hist = []
StartRandomSearch ==
    /\ lab00.pc = "start"
    /\ LET r == get_random_grid(params, IntArg(MaxN), pyRandom[1])
       IN  /\ lab00' = [lab00 EXCEPT !.cell = "random",
                                     !.experiments = r.out.value,
                                     !.exp_counter = 0, !.acc_hist = <<>>,
                                     !.run_hist = <<>>, !.it = 0, !.pc = "for"]
           /\ pyRandom' = [pyRandom EXCEPT ![1] = r.rng]
    /\ params' = params_after_call(params)
    /\ UNCHANGED <<npRandom, torchRandom, last, thr, lab01, heap, trial>>

\* for exp in experiments: exp_counter += 1, and run_experiment is entered.
ForNext ==
    /\ lab00.pc = "for"
    /\ lab00.it < Len(lab00.experiments)
    /\ lab00' = [lab00 EXCEPT !.exp = lab00.experiments[lab00.it + 1],
                              !.it = @ + 1, !.exp_counter = @ + 1,
                              !.calls = <<>>, !.pc = "unpack"]
    /\ UNCHANGED <<params, pyRandom, npRandom, torchRandom, last, thr, lab01,
                   heap, trial>>

\* The list is exhausted: the loop is left.
ForExhausted ==
    /\ lab00.pc = "for"
    /\ lab00.it >= Len(lab00.experiments)
    /\ lab00' = [lab00 EXCEPT !.pc = "best"]
    /\ UNCHANGED <<params, pyRandom, npRandom, torchRandom, last, thr, lab01,
                   heap, trial>>

\* optimizer = ...; loss_crierion = exp["loss"]
RunUnpack ==
    /\ lab00.pc = "unpack"
    /\ lab00' = [lab00 EXCEPT !.optimizer = Ok(run_optimizer(lab00.exp)),
                              !.calls = Append(@, "unpack"), !.pc = "reset"]
    /\ UNCHANGED <<params, pyRandom, npRandom, torchRandom, last, thr, lab01,
                   heap, trial>>

\* net.reset()
RunReset ==
    /\ lab00.pc = "reset"
    /\ lab00' = [lab00 EXCEPT !.net = Net_reset(@, lab00.exp_counter),
                              !.calls = Append(@, "reset"), !.pc = "train"]
    /\ UNCHANGED <<params, pyRandom, npRandom, torchRandom, last, thr, lab01,
                   heap, trial>>

\* loss_hist = train(net, exp["batch_size"], loss_crierion, optimizer, ...)
RunTrain ==
    /\ lab00.pc = "train"
    /\ lab00' = [lab00 EXCEPT !.run = run_train_args(lab00.exp, lab00.optimizer.value),
                              !.net = Net_train(@, lab00.exp_counter),
                              !.calls = Append(@, "train"), !.pc = "test"]
    /\ UNCHANGED <<params, pyRandom, npRandom, torchRandom, last, thr, lab01,
                   heap, trial>>

\* acc = test(net, test_X, test_y), on the holdout arrays the loop passed.
RunTest(a) ==
    /\ lab00.pc = "test"
    /\ lab00' = [lab00 EXCEPT !.acc = [value |-> a, on |-> Holdout(lab00.cell),
                                       net |-> lab00.net],
                              !.calls = Append(@, "test"), !.pc = "append"]
    /\ UNCHANGED <<params, pyRandom, npRandom, torchRandom, last, thr, lab01,
                   heap, trial>>

\* run_experiment returns; acc_hist.append(acc)
LoopAppend ==
    /\ lab00.pc = "append"
    /\ lab00' = [lab00 EXCEPT !.acc_hist = list_append(@, lab00.acc.value),
                              !.run_hist = Append(@, [it |-> lab00.it,
                                                      run |-> lab00.run,
                                                      on |-> lab00.acc.on,
                                                      value |-> lab00.acc.value]),
                              !.pc = "for"]
    /\ UNCHANGED <<params, pyRandom, npRandom, torchRandom, last, thr, lab01,
                   heap, trial>>

NextCells ==
    \/ StartGridSearch
    \/ StartRandomSearch
    \/ ForNext
    \/ ForExhausted
    \/ RunUnpack
    \/ RunReset
    \/ RunTrain
    \/ \E a \in HoldoutAccs : RunTest(a)
    \/ LoopAppend
    \/ CallGetBestRun

\* The cells run to their end: a notebook cell that can take a step takes it.
SpecCells == InitCells /\ [][NextCells]_vars /\ WF_vars(NextCells)

(***************************************************************************)
(* get_random_grid by identity.  get_param_grid builds one dict object per *)
(* grid position; a dict object is kept in the heap with the position it   *)
(* was built for, and an Experiment of the returned list is the offset of  *)
(* its object in the heap.  random.choices returns population[i], the      *)
(* object itself.  The caller then assigns 0, which is no candidate, to    *)
(* the first parameter of one returned Experiment.                         *)
(***************************************************************************)
\* A body that returns dict(e), a new object, for every Experiment e drawn.
get_random_grid_copies(p, n, rng) ==
    LET grid == get_param_grid(p)
    IN  IF grid.status = "raise" THEN [heap |-> <<>>, out |-> grid, rng |-> rng]
        ELSE LET objs == [i \in DOMAIN grid.value |-> [pos |-> i, d |-> grid.value[i]]]
                 r == random_choices([i \in DOMAIN objs |-> i], n, rng)
             IN  IF r.out.status = "raise" THEN [heap |-> objs, out |-> r.out, rng |-> r.rng]
                 ELSE [heap |-> objs \o [j \in DOMAIN r.out.value |-> objs[r.out.value[j]]],
                       out |-> Ok([j \in DOMAIN r.out.value |-> Len(objs) + j]),
                       rng |-> r.rng]

get_random_grid_refs(p, n, rng) ==
    LET grid == get_param_grid(p)
    IN  IF grid.status = "raise" THEN [heap |-> <<>>, out |-> grid, rng |-> rng]
        ELSE LET objs == [i \in DOMAIN grid.value |-> [pos |-> i, d |-> grid.value[i]]]
                 r == random_choices([i \in DOMAIN objs |-> i], n, rng)
             IN  [heap |-> objs, out |-> r.out, rng |-> r.rng]

\* experiments = get_random_grid(params, n)
CallRandomGridRefs(n) ==
    /\ last[1].op = "none"
    /\ LET r == get_random_grid_refs(params, n, pyRandom[1])
       IN  /\ last' = [last EXCEPT ![1] = [op |-> "get_random_grid", n |-> n,
                                            out |-> r.out]]
           /\ heap' = r.heap
           /\ pyRandom' = [pyRandom EXCEPT ![1] = r.rng]
    /\ params' = params_after_call(params)
    /\ UNCHANGED <<npRandom, torchRandom, thr, lab00, lab01, trial>>

\* experiments[j - 1][key] = 0 for the first key of params
SetItem(j) ==
    /\ last[1].op = "get_random_grid"
    /\ last[1].out.status = "ok"
    /\ j \in DOMAIN last[1].out.value
    /\ heap' = [heap EXCEPT ![last[1].out.value[j]].d[params[1].key] = 0]
    /\ last' = [last EXCEPT ![1].op = "setitem", ![1].n = IntArg(j)]
    /\ UNCHANGED <<params, pyRandom, npRandom, torchRandom, thr, lab00, lab01, trial>>

NextRefs ==
    \/ \E n \in {MaxN, MaxN + 1} : CallRandomGridRefs(IntArg(n))
    \/ \E j \in 1..(MaxN + 1) : SetItem(j)

SpecRefs == Init /\ [][NextRefs]_vars

(***************************************************************************)
(* The data loops: load_mnist and train of Lab00 and train of the Ray lab, *)
(* each called once by a thread on arrays of up to MaxRows rows.  A row is *)
(* known by its offset in the array it was loaded into.  N * f is computed *)
(* exactly (rounding is left out) and np.random.permutation returns any    *)
(* permutation of the offsets.                                             *)
(***************************************************************************)
\* int(n * f) for a fraction f that is not negative.
training_size(n, f) == (n * f[1]) \div f[2]

RowOrders(n) ==
    {p \in [1..n -> 0..(n - 1)] : \A i, j \in 1..n : i # j => p[i] # p[j]}

\* A split whose validation part starts at the last training row.
load_mnist_overlap(n_train, n_test, train_fraction, indices) ==
    IF ~(train_fraction[1] >= 0 /\ train_fraction[1] <= train_fraction[2])
    THEN Raise("AssertionError")
    ELSE LET size == training_size(n_train, train_fraction)
         IN  Ok([train |-> SubSeq(indices, 1, size),
                 valid |-> SubSeq(indices, IF size = 0 THEN 1 ELSE size, n_train),
                 test |-> [i \in 1..n_test |-> i - 1]])

\* load_mnist on n_train training rows and n_test test rows, indices being
\* the permutation drawn: the rows of the three parts it returns.
load_mnist(n_train, n_test, train_fraction, indices) ==
    IF ~(train_fraction[1] >= 0 /\ train_fraction[1] <= train_fraction[2])
    THEN Raise("AssertionError")
    ELSE LET size == training_size(n_train, train_fraction)
         IN  Ok([train |-> SubSeq(indices, 1, size),
                 valid |-> SubSeq(indices, size + 1, n_train),
                 test |-> [i \in 1..n_test |-> i - 1]])

\* A range that leaves out a last step shorter than the others.
py_range_whole(start, stop, step) ==
    IF step = 0 THEN Raise("ValueError")
    ELSE Ok([i \in 1..(IF step > 0 /\ stop > start THEN (stop - start) \div step
                       ELSE 0) |-> start + (i - 1) * step])

\* list(range(start, stop, step)) for start <= stop.
py_range(start, stop, step) ==
    IF step = 0 THEN Raise("ValueError")
    ELSE Ok([i \in 1..(IF step > 0 /\ stop > start
                       THEN (stop - start + step - 1) \div step
                       ELSE 0) |-> start + (i - 1) * step])

\* The rows of a[lo:hi] for an array of n rows, 0 <= lo <= n.
Slice(n, lo, hi) ==
    [i \in 1..((IF hi < lo THEN lo ELSE IF hi > n THEN n ELSE hi) - lo) |-> lo + i - 1]

\* What one iteration of the inner loop of train calls, in order.
StepCalls == <<"zero_grad", "forward", "loss", "backward", "step">>

\* train of Lab00: the steps it has performed, each with the rows of its
\* mini-batch, and the loss_hist it returns (the loss of step s is s).
train(n, batch_size, max_epochs) ==
    LET indexes == py_range(0, n, batch_size)
    IN  IF max_epochs <= 0 THEN Ok([steps |-> <<>>, loss_hist |-> <<>>])
        ELSE IF indexes.status = "raise" THEN indexes
        ELSE LET per == Len(indexes.value)
             IN  Ok([steps |-> [s \in 1..(max_epochs * per) |->
                                   [epoch |-> (s - 1) \div per,
                                    rows |-> Slice(n, indexes.value[((s - 1) % per) + 1],
                                                   indexes.value[((s - 1) % per) + 1]
                                                       + batch_size),
                                    calls |-> StepCalls]],
                     loss_hist |-> [s \in 1..(max_epochs * per) |-> s]])

\* The batch lengths of DataLoader(dataset of n samples, batch_size=b).
DataLoaderLens(n, b) ==
    [i \in 1..((n + b - 1) \div b) |-> IF i * b <= n THEN b ELSE n - (i - 1) * b]

\* A loop that returns at the first batch with batch_idx * len(data) >= size.
RECURSIVE ray_train_strict(_, _, _, _)
ray_train_strict(lens, epoch_size, batch_idx, steps) ==
    IF batch_idx >= Len(lens) THEN steps
    ELSE IF batch_idx * lens[batch_idx + 1] >= epoch_size THEN steps
    ELSE ray_train_strict(lens, epoch_size, batch_idx + 1,
                          Append(steps, lens[batch_idx + 1]))

\* train of the Ray lab over the batches of train_loader: the lengths of
\* the batches it has made an optimizer step on.
RECURSIVE ray_train(_, _, _, _)
ray_train(lens, epoch_size, batch_idx, steps) ==
    IF batch_idx >= Len(lens) THEN steps
    ELSE IF batch_idx * lens[batch_idx + 1] > epoch_size THEN steps
    ELSE ray_train(lens, epoch_size, batch_idx + 1, Append(steps, lens[batch_idx + 1]))

\* The arguments of the three calls; the last of RayInputs is the Ray lab's
\* own: the 60,000 training samples of MNIST in batches of 64.
LoadInputs ==
    {[n_train |-> Len(p), n_test |-> 2, train_fraction |-> f, indices |-> p] :
        p \in UNION {RowOrders(n) : n \in 0..MaxRows},
        f \in {<<-1, 5>>, <<0, 1>>, <<1, 3>>, <<1, 2>>, <<4, 5>>, <<1, 1>>, <<6, 5>>}}

TrainInputs ==
    {[n |-> n, batch_size |-> b, max_epochs |-> e] :
        n \in 0..MaxRows, b \in (-1)..(MaxRows + 1), e \in 0..MaxEpochs}

RayInputs ==
    {[n |-> n, batch_size |-> b, epoch_size |-> e] :
        n \in 0..(2 * MaxRows), b \in 1..MaxRows, e \in 0..MaxRows}
    \cup {[n |-> 60000, batch_size |-> 64, epoch_size |-> EPOCH_SIZE]}

ThreadLoadMnist(t, a) ==
    /\ thr[t].pc = "idle"
    /\ Finish(t, "load_mnist", IntArg(0), a, <<>>,
              load_mnist(a.n_train, a.n_test, a.train_fraction, a.indices))
    /\ UNCHANGED <<params, pyRandom, npRandom, torchRandom, last, lab00,
                   lab01, heap, trial>>

ThreadTrain(t, a) ==
    /\ thr[t].pc = "idle"
    /\ Finish(t, "train", IntArg(0), a, <<>>, train(a.n, a.batch_size, a.max_epochs))
    /\ UNCHANGED <<params, pyRandom, npRandom, torchRandom, last, lab00,
                   lab01, heap, trial>>

ThreadRayTrain(t, a) ==
    /\ thr[t].pc = "idle"
    /\ Finish(t, "ray_train", IntArg(0), a, <<>>,
              Ok(ray_train(DataLoaderLens(a.n, a.batch_size), a.epoch_size, 0, <<>>)))
    /\ UNCHANGED <<params, pyRandom, npRandom, torchRandom, last, lab00,
                   lab01, heap, trial>>

NextData ==
    \/ \E a \in LoadInputs : ThreadLoadMnist(1, a)
    \/ \E a \in TrainInputs : ThreadTrain(1, a)
    \/ \E a \in RayInputs : ThreadRayTrain(1, a)

SpecData == InitKernel /\ [][NextData]_vars

(***************************************************************************)
(* train_mnist of the Ray lab, the trainable tune.run executes once per    *)
(* sampled config.  The trial keeps a log of what it has done: every       *)
(* train, test, tune.report and torch.save with the loop variable i, and   *)
(* the accuracy a test returned or a report sent.  tune.run is also called *)
(* with the ASHA scheduler, which ends a trial inside a tune.report.       *)
(***************************************************************************)
\* A condition that holds at the last iteration of every five.
train_mnist_save_last(i) == i % 5 = 4

\* if i % 5 == 0:
train_mnist_save(i) == i % 5 = 0

Logged(ev, i, acc) == [ev |-> ev, i |-> i, acc |-> acc]

\* tune.run calls train_mnist(config); the for loop takes its first i.
TuneStart(config) ==
    /\ trial.pc = "none"
    /\ LET r == py_range(0, 10, 1).value
       IN  trial' = [trial EXCEPT !.config = config,
                                  !.pc = IF Len(r) > 0 THEN "train" ELSE "done",
                                  !.it = IF Len(r) > 0 THEN 1 ELSE 0,
                                  !.i = IF Len(r) > 0 THEN r[1] ELSE 0]
    /\ UNCHANGED <<params, pyRandom, npRandom, torchRandom, last, thr, lab00, lab01, heap>>

\* train(model, optimizer, train_loader)
TuneTrain ==
    /\ trial.pc = "train"
    /\ trial' = [trial EXCEPT
                    !.steps = @ + Len(ray_train(DataLoaderLens(60000, 64), EPOCH_SIZE,
                                                0, <<>>)),
                    !.log = Append(@, Logged("train", trial.i, <<>>)),
                    !.pc = "test"]
    /\ UNCHANGED <<params, pyRandom, npRandom, torchRandom, last, thr, lab00, lab01, heap>>

\* acc = test(model, test_loader)
TuneTest(a) ==
    /\ trial.pc = "test"
    /\ trial' = [trial EXCEPT !.acc = a,
                              !.log = Append(@, Logged("test", trial.i, a)),
                              !.pc = "report"]
    /\ UNCHANGED <<params, pyRandom, npRandom, torchRandom, last, thr, lab00, lab01, heap>>

\* tune.report(mean_accuracy=acc)
TuneReport ==
    /\ trial.pc = "report"
    /\ trial' = [trial EXCEPT !.log = Append(@, Logged("report", trial.i, trial.acc)),
                              !.pc = "save"]
    /\ UNCHANGED <<params, pyRandom, npRandom, torchRandom, last, thr, lab00, lab01, heap>>

\* The scheduler stops the trial on the result just reported: the call of
\* tune.report does not return.
TuneStop ==
    /\ trial.pc = "save"
    /\ trial' = [trial EXCEPT !.pc = "stopped"]
    /\ UNCHANGED <<params, pyRandom, npRandom, torchRandom, last, thr, lab00, lab01, heap>>

\* The if with its torch.save, and the for loop's next i.
TuneSave ==
    /\ trial.pc = "save"
    /\ LET r == py_range(0, 10, 1).value
           more == trial.it < Len(r)
       IN  trial' = [trial EXCEPT
                        !.log = IF train_mnist_save(trial.i)
                                THEN Append(@, Logged("save", trial.i, <<>>)) ELSE @,
                        !.pc = IF more THEN "train" ELSE "done",
                        !.it = IF more THEN @ + 1 ELSE @,
                        !.i = IF more THEN r[trial.it + 1] ELSE @]
    /\ UNCHANGED <<params, pyRandom, npRandom, torchRandom, last, thr, lab00, lab01, heap>>

NextTune ==
    \/ \E lr \in {<<1, 1000>>, <<1, 10>>}, momentum \in {<<1, 10>>, <<9, 10>>} :
          TuneStart([lr |-> lr, momentum |-> momentum])
    \/ TuneTrain
    \/ \E a \in HoldoutAccs : TuneTest(a)
    \/ TuneReport
    \/ TuneStop
    \/ TuneSave

SpecTune == InitKernel /\ [][NextTune]_vars

(***************************************************************************)
(* Vocabulary of the properties.                                           *)
(***************************************************************************)
Range(f) == {f[i] : i \in DOMAIN f}

AllNonEmpty(p) == \A i \in DOMAIN p : Len(p[i].vals) > 0

ValidSpace(p) == Len(p) > 0 /\ AllNonEmpty(p)

\* The product of the lengths of the candidate lists from parameter `from` on.
RECURSIVE LensFrom(_, _)
LensFrom(p, from) ==
    IF from > Len(p) THEN 1 ELSE Len(p[from].vals) * LensFrom(p, from + 1)

\* One candidate position per parameter.
PosVecs(p) ==
    {pv \in [DOMAIN p -> 1..MaxCand] : \A i \in DOMAIN p : pv[i] <= Len(p[i].vals)}

\* The Experiment a choice of positions stands for.
DictOfPos(p, pv) ==
    [k \in Range(ItemKeys(p)) |->
        LET i == CHOOSE j \in DOMAIN p : p[j].key = k IN p[i].vals[pv[i]]]

\* The positions the odometer shows at step i (from 1): the last parameter
\* turns at every step, parameter j once per full turn of those after it.
OdometerPos(p, i) ==
    [j \in DOMAIN p |-> (((i - 1) \div LensFrom(p, j + 1)) % Len(p[j].vals)) + 1]

GridCalls == {r \in Runs : last[r].op = "get_param_grid"}

RandomCalls == {r \in Runs : last[r].op = "get_random_grid"}

\* The grid is the Cartesian product of the candidate lists of the space.
IsCartesianProduct(r) ==
    /\ last[r].out.status = "ok"
    /\ \A i \in DOMAIN last[r].out.value :
          LET e == last[r].out.value[i]
          IN  /\ DOMAIN e = Range(ItemKeys(params))
              /\ \A j \in DOMAIN params : e[params[j].key] \in Range(params[j].vals)
    /\ \A pv \in PosVecs(params) :
          LET e == DictOfPos(params, pv)
          IN  Cardinality({i \in DOMAIN last[r].out.value : last[r].out.value[i] = e})
                = Cardinality({qv \in PosVecs(params) : DictOfPos(params, qv) = e})
    /\ Len(last[r].out.value) = Cardinality(PosVecs(params))

\* The example space of the odometer order and its grid.
C3_ExampleSpace ==
    <<[key |-> "a", vals |-> <<1, 2>>], [key |-> "b", vals |-> <<10, 20>>]>>

C3_ExampleGrid ==
    <<[a |-> 1, b |-> 10], [a |-> 1, b |-> 20], [a |-> 2, b |-> 10], [a |-> 2, b |-> 20]>>

\* The kernels that are handed no generator.
PureOps == {"get_param_grid", "exponential_cov", "conditional"}

\* What the invocation of thread t returns when nothing runs beside it, from
\* the state it started in.
AloneResult(t) ==
    CASE thr[t].op = "get_param_grid" -> get_param_grid(params)
      [] thr[t].op = "exponential_cov" ->
            Ok(exponential_cov(thr[t].gp.x_new, thr[t].gp.x, thr[t].gp.theta).e)
      [] thr[t].op = "conditional" ->
            conditional(thr[t].gp.x_new, thr[t].gp.x, thr[t].gp.y, thr[t].gp.theta)
      [] OTHER -> get_random_grid(params, thr[t].n, thr[t].rng0).out

(***************************************************************************)
(* C1 as written: for every space whose candidate lists are all non-empty, *)
(* get_param_grid returns a list as long as the product of the lengths of  *)
(* the candidate lists.  The space without parameters is such a space.     *)
(***************************************************************************)
C1_LengthIsProduct_AsClaimed ==
    \A r \in GridCalls :
        AllNonEmpty(params) =>
            /\ last[r].out.status = "ok"
            /\ Len(last[r].out.value) = LensFrom(params, 1)

(***************************************************************************)
(* C1 amended: for every space with at least one parameter whose candidate *)
(* lists are all non-empty, get_param_grid returns a list as long as the   *)
(* product of the lengths of the candidate lists.                          *)
(***************************************************************************)
C1_LengthIsProduct ==
    \A r \in GridCalls :
        ValidSpace(params) =>
            /\ last[r].out.status = "ok"
            /\ Len(last[r].out.value) = LensFrom(params, 1)

C1_Witness ==
    /\ last[1].op = "get_param_grid"
    /\ Len(params) = 2
    /\ \A i \in DOMAIN params : Len(params[i].vals) = 2
    /\ Len(last[1].out.value) = 4

(***************************************************************************)
(* C2 as written: get_param_grid returns every element of the Cartesian    *)
(* product: every returned Experiment maps exactly the parameter names to  *)
(* one candidate each, and every choice of one candidate position per      *)
(* parameter has its own position in the result (so a combination occurs   *)
(* as often as there are choices of positions that give it).               *)
(***************************************************************************)
C2_CartesianProduct_AsClaimed == \A r \in GridCalls : IsCartesianProduct(r)

(***************************************************************************)
(* C2 amended: for every space with at least one parameter, get_param_grid *)
(* returns every element of the Cartesian product, as above.               *)
(***************************************************************************)
C2_CartesianProduct ==
    \A r \in GridCalls : Len(params) > 0 => IsCartesianProduct(r)

C2_Witness ==
    /\ last[1].op = "get_param_grid"
    /\ Len(params) = 2
    /\ Len(params[1].vals) = 2
    /\ Len(params[2].vals) = 1
    /\ Len(last[1].out.value) = 2
    /\ last[1].out.value[1] # last[1].out.value[2]

(***************************************************************************)
(* C3: whenever get_param_grid returns, its i-th Experiment is the one the *)
(* odometer over the parameters in insertion order shows at step i, the    *)
(* last-declared parameter turning fastest; the output is thereby a        *)
(* function of the space.  {a: [1,2], b: [10,20]} gives {a:1,b:10},        *)
(* {a:1,b:20}, {a:2,b:10}, {a:2,b:20} in this order.                       *)
(***************************************************************************)
C3_OdometerOrder ==
    \A r \in GridCalls :
        last[r].out.status = "ok" =>
            /\ Len(last[r].out.value) = LensFrom(params, 1)
            /\ \A i \in DOMAIN last[r].out.value :
                  last[r].out.value[i] = DictOfPos(params, OdometerPos(params, i))
            /\ params = C3_ExampleSpace => last[r].out.value = C3_ExampleGrid

C3_Witness ==
    /\ last[1].op = "get_param_grid"
    /\ params = C3_ExampleSpace
    /\ last[1].out = Ok(C3_ExampleGrid)

(***************************************************************************)
(* C4 as written: get_param_grid fails (InvalidSpace) whenever a parameter *)
(* of the space has an empty candidate list; it returns no grid for such a *)
(* space.                                                                  *)
(***************************************************************************)
C4_EmptyListRejected ==
    \A r \in GridCalls :
        (\E i \in DOMAIN params : Len(params[i].vals) = 0) =>
            last[r].out.status = "raise"

(***************************************************************************)
(* C5: for every valid space and every integer n >= 0, get_random_grid     *)
(* returns exactly n Experiments, each an element of get_param_grid's      *)
(* result for the space.                                                   *)
(***************************************************************************)
C5_RandomGridSize ==
    \A r \in RandomCalls :
        (ValidSpace(params) /\ last[r].n.isInt /\ last[r].n.val >= 0) =>
            /\ last[r].out.status = "ok"
            /\ Len(last[r].out.value) = last[r].n.val
            /\ \A i \in DOMAIN last[r].out.value :
                  last[r].out.value[i] \in Range(get_param_grid(params).value)

C5_Witness ==
    /\ last[1].op = "get_random_grid"
    /\ ValidSpace(params)
    /\ last[1].n = IntArg(2)
    /\ Len(last[1].out.value) = 2
    /\ last[1].out.value[1] # last[1].out.value[2]

(***************************************************************************)
(* C6: get_random_grid samples with replacement: a sample count above the  *)
(* grid size still succeeds with n Experiments, two of which are then the  *)
(* same combination; every draw is the grid element the generator's next   *)
(* value selects, whatever was drawn before.  (C6_Witness: two equal draws *)
(* from a grid of four.)                                                   *)
(***************************************************************************)
C6_WithReplacement ==
    \A r \in RandomCalls :
        (ValidSpace(params) /\ last[r].n.isInt /\ last[r].n.val >= 0) =>
            LET grid == get_param_grid(params).value
                got == last[r].out.value
                n == last[r].n.val
                \* the generator has moved n places: its state before the call
                before == [i \in 1..TapeLen |->
                             pyRandom[r][((i - 1 + n * (TapeLen - 1)) % TapeLen) + 1]]
            IN  /\ last[r].out.status = "ok"
                /\ Len(got) = n
                /\ n > Len(grid) => \E i, j \in 1..n : i < j /\ got[i] = got[j]
                /\ \A i \in 1..n :
                      got[i] = grid[((before[((i - 1) % TapeLen) + 1] * Len(grid)) \div Res) + 1]

C6_Witness ==
    /\ last[1].op = "get_random_grid"
    /\ last[1].n = IntArg(2)
    /\ last[1].out.status = "ok"
    /\ Len(get_param_grid(params).value) = 4
    /\ last[1].out.value[1] = last[1].out.value[2]

(***************************************************************************)
(* C7 as written: get_random_grid fails (InvalidArgument) when n is        *)
(* negative or not an integer; it returns no list for such an n.           *)
(***************************************************************************)
C7_BadCountRejected ==
    \A r \in RandomCalls :
        (ValidSpace(params) /\ (~last[r].n.isInt \/ last[r].n.val < 0)) =>
            last[r].out.status = "raise"

(***************************************************************************)
(* C8 as written: two runs of Lab00 that both execute the seeding cell and *)
(* then call get_random_grid with the same space and the same n obtain the *)
(* same list of Experiments.  Checked under SpecRuns, where either process *)
(* makes one call after its seeding cell.                                  *)
(***************************************************************************)
C8_SeededRunsAgree ==
    (/\ \A r \in Runs : /\ npRandom[r] = SeedState(SEED)
                        /\ torchRandom[r] = SeedState(SEED)
                        /\ last[r].op = "get_random_grid"
     /\ last[1].n = last[2].n)
        => last[1].out = last[2].out

(***************************************************************************)
(* C9 as written: no kernel reads or writes state other than its arguments *)
(* and its result: no step of an invocation changes the space or advances  *)
(* a process-wide generator.                                               *)
(***************************************************************************)
C9_KernelsPure_AsClaimed ==
    [][\A t \in Threads :
          thr'[t] # thr[t] =>
              /\ params' = params
              /\ pyRandom' = pyRandom
              /\ npRandom' = npRandom
              /\ torchRandom' = torchRandom]_vars

(***************************************************************************)
(* C9 amended: get_param_grid, exponential_cov and conditional read and    *)
(* write no state other than their arguments and their result.             *)
(* get_random_grid leaves the space, the numpy and torch generators and    *)
(* the other invocation alone, but reads the process-wide generator of the *)
(* random module and advances it by one value per draw: each drawn         *)
(* Experiment is the one the generator's next value selects.               *)
(***************************************************************************)
C9_KernelEffects ==
    [][\A t \in Threads :
          thr'[t] # thr[t] =>
              /\ params' = params
              /\ npRandom' = npRandom
              /\ torchRandom' = torchRandom
              /\ last' = last
              /\ pyRandom'[2] = pyRandom[2]
              /\ \A u \in Threads \ {t} : thr'[u] = thr[u]
              /\ thr'[t].op \in PureOps => pyRandom' = pyRandom
              /\ thr'[t].op = "get_random_grid" =>
                    LET drew == thr[t].pc = "draw" /\ Len(thr[t].acc) < thr[t].n.val
                        u == Head(pyRandom[1])
                        pop == thr[t].population
                    IN  /\ ~drew => pyRandom' = pyRandom
                        /\ drew =>
                              /\ pyRandom'[1] = Append(Tail(pyRandom[1]), u)
                              /\ IF Len(pop) = 0
                                 THEN thr'[t].out = Raise("IndexError")
                                 ELSE thr'[t].acc =
                                        Append(thr[t].acc, pop[((u * Len(pop)) \div Res) + 1])
      ]_vars

C9_Witness ==
    /\ thr[1].pc = "done"
    /\ thr[1].op = "get_random_grid"
    /\ thr[1].out.status = "ok"
    /\ Len(thr[1].out.value) = 1
    /\ pyRandom[1] # thr[1].rng0
    /\ thr[2].pc = "done"
    /\ thr[2].op = "conditional"
    /\ Len(thr[2].gp.x) = 1
    /\ thr[2].rng0 = pyRandom[1]

(***************************************************************************)
(* C10 as written: for any interleaving of two invocations, each returns   *)
(* the result it would return if run alone from the state it started in.   *)
(***************************************************************************)
C10_NoInterference_AsClaimed ==
    \A t \in Threads : thr[t].pc = "done" => thr[t].out = AloneResult(t)

(***************************************************************************)
(* C10 amended: an invocation of get_param_grid, exponential_cov or        *)
(* conditional returns, in any interleaving, the result it would return    *)
(* alone, and so does a get_random_grid invocation interleaved with one of *)
(* those.  Two interleaved get_random_grid invocations share the process's *)
(* generator: each still returns n Experiments of the grid, but not        *)
(* necessarily those it would draw alone.                                  *)
(***************************************************************************)
C10_NoInterference ==
    \A t \in Threads :
        thr[t].pc = "done" =>
            /\ thr[t].op \in PureOps => thr[t].out = AloneResult(t)
            /\ (thr[t].op = "get_random_grid"
                   /\ \A u \in Threads \ {t} : thr[u].op # "get_random_grid")
                  => thr[t].out = AloneResult(t)
            /\ (thr[t].op = "get_random_grid" /\ thr[t].out.status = "ok") =>
                  /\ Len(thr[t].out.value) = IF thr[t].n.val < 0 THEN 0 ELSE thr[t].n.val
                  /\ \A i \in DOMAIN thr[t].out.value :
                        thr[t].out.value[i] \in Range(get_param_grid(params).value)

C10_Witness ==
    /\ thr[1].pc = "done"
    /\ thr[1].op = "get_random_grid"
    /\ thr[1].n = IntArg(2)
    /\ thr[1].out.status = "ok"
    /\ thr[1].out.value[1] # thr[1].out.value[2]
    /\ thr[2].pc = "done"
    /\ thr[2].op = "conditional"
    /\ thr[2].rng0 = Advance(thr[1].rng0)
    /\ thr[2].rng0 # thr[1].rng0

(***************************************************************************)
(* C11: the parameter space is read-only after construction:               *)
(* get_param_grid(params) and get_random_grid(params, n) leave params as   *)
(* it was: the same keys in the same order, each with the same candidate   *)
(* list, whatever the call returns or raises.  (Every step of Spec is one  *)
(* of the two calls.)                                                      *)
(***************************************************************************)
C11_ParamsReadOnly ==
    [][params' = params]_vars

C11_Witness ==
    /\ last[1].op = "get_random_grid"
    /\ last[1].out.status = "ok"
    /\ Len(last[1].out.value) = 2
    /\ Len(params) = 2
    /\ \A i \in DOMAIN params : Len(params[i].vals) = 2

(***************************************************************************)
(* Vocabulary of the Lab01 properties.                                     *)
(***************************************************************************)
\* The threads that have returned from (or raised in) the kernel op.
KernelDone(op) == {t \in Threads : thr[t].pc = "done" /\ thr[t].op = op}

Distinct(x) == \A i, j \in DOMAIN x : i # j => x[i] # x[j]

Identity(n) == Mat(n, n, [i \in 1..n |-> [j \in 1..n |-> FInt(IF i = j THEN 1 ELSE 0)]])

MatFinite(A) == \A i \in 1..A.nr : \A j \in 1..A.nc : Finite(A.e[i][j])

\* What conditional returns for a mean vector mu and a covariance array sigma.
Squeezed(mu, sigma) == <<SqueezeVec(mu), SqueezeMat(sigma)>>

\* A returned pair for k query points holds finite numbers only.
ResultFinite(v, k) ==
    IF k = 1 THEN Finite(v[1]) /\ Finite(v[2])
    ELSE /\ \A i \in 1..k : Finite(v[1][i])
         /\ \A i, j \in 1..k : Finite(v[2][i][j])

\* Sigma_y of the inputs g has an inverse in floats: theta[0] is not zero and
\* 1 / theta[0] does not overflow, and the kernel is not constant (theta[1]
\* is not zero) when two or more points are observed.
HasInverse(g) ==
    /\ g.theta[1] # FInt(0)
    /\ Finite(FDiv(FInt(1), g.theta[1]))
    /\ Len(g.x) >= 2 => g.theta[2] # 0

(***************************************************************************)
(* C12: whenever conditional(x_new, x, y, params) returns, it returns the  *)
(* posterior mean Sigma_xy inverse(Sigma_y) y and the posterior covariance *)
(* Sigma_x - Sigma_xy inverse(Sigma_y) Sigma_xy^T, where Sigma_xy =        *)
(* cov(x_new, x), Sigma_y = cov(x, x) and Sigma_x = cov(x_new, x_new) are  *)
(* computed with the same params, and inverse(Sigma_y), where finite, is   *)
(* the array whose product with Sigma_y is the identity.                   *)
(***************************************************************************)
C12_PosteriorFormulas ==
    \A t \in KernelDone("conditional") :
        thr[t].out.status = "ok" =>
            LET g == thr[t].gp
                Sigma_xy == exponential_cov(g.x_new, g.x, g.theta)
                Sigma_y == exponential_cov(g.x, g.x, g.theta)
                Sigma_x == exponential_cov(g.x_new, g.x_new, g.theta)
                inv == Inverse(Sigma_y)
                gain == MatMul(Sigma_xy, inv)
            IN  /\ MatFinite(inv) => MatMul(inv, Sigma_y) = Identity(Len(g.x))
                /\ thr[t].out.value =
                      Squeezed(MatVec(gain, g.y),
                               MatSub(Sigma_x, MatMul(gain, Transpose(Sigma_xy))))

C12_Witness ==
    /\ thr[1].pc = "done"
    /\ thr[1].op = "conditional"
    /\ thr[1].out.status = "ok"
    /\ thr[1].gp.x = <<0, 2>>
    /\ thr[1].gp.x_new = <<0, 1>>
    /\ thr[1].gp.theta = <<FInt(2), 1>>
    /\ thr[1].out.value[1][1] = OutPool[1]
    /\ thr[1].out.value[1][2] # FInt(0)
    /\ thr[1].out.value[2][1][1] = FInt(0)
    /\ thr[1].out.value[2][2][2] # FInt(0)
    /\ thr[1].out.value[2][2][2] # FInt(2)

(***************************************************************************)
(* C13 as written: with no observations, conditional(x_new, [], [], params)*)
(* short-circuits to the prior: it returns an all-zero mean and the        *)
(* covariance exponential_cov(x_new, x_new, params) without evaluating the *)
(* matrix-inverse formula.                                                 *)
(***************************************************************************)
C13_EmptyShortCircuit_AsClaimed ==
    \A t \in KernelDone("conditional") :
        (thr[t].gp.x = <<>> /\ thr[t].gp.y = <<>>) =>
            /\ thr[t].out =
                  Ok(Squeezed([i \in DOMAIN thr[t].gp.x_new |-> FInt(0)],
                              exponential_cov(thr[t].gp.x_new, thr[t].gp.x_new,
                                              thr[t].gp.theta)))
            /\ "inv" \notin Range(thr[t].calls)

(***************************************************************************)
(* C13 amended: with no observations, conditional(x_new, [], [], params)   *)
(* returns the prior, an all-zero mean and the covariance                  *)
(* exponential_cov(x_new, x_new, params); it does not short-circuit: it    *)
(* makes the same calls as for any other input, inverting the empty array  *)
(* Sigma_y and multiplying empty arrays.                                   *)
(***************************************************************************)
C13_EmptyIsPrior ==
    \A t \in KernelDone("conditional") :
        (thr[t].gp.x = <<>> /\ thr[t].gp.y = <<>>) =>
            /\ thr[t].out =
                  Ok(Squeezed([i \in DOMAIN thr[t].gp.x_new |-> FInt(0)],
                              exponential_cov(thr[t].gp.x_new, thr[t].gp.x_new,
                                              thr[t].gp.theta)))
            /\ thr[t].calls = <<"exponential_cov", "exponential_cov", "exponential_cov",
                                "inv", "dot", "dot", "inv", "dot", "dot",
                                "squeeze", "squeeze">>

C13_Witness ==
    /\ thr[1].pc = "done"
    /\ thr[1].op = "conditional"
    /\ thr[1].gp.x = <<>>
    /\ thr[1].gp.y = <<>>
    /\ thr[1].gp.x_new = <<0, 1>>
    /\ thr[1].gp.theta = <<FInt(2), 1>>
    /\ thr[1].out = Ok(<<<<FInt(0), FInt(0)>>,
                         <<<<FInt(2), FInt(1)>>, <<FInt(1), FInt(2)>>>>>>)

(***************************************************************************)
(* C14 as written: conditional fails (SingularMatrix / IllConditioned)     *)
(* whenever Sigma_y is not safely invertible, as with a duplicate among    *)
(* the observed inputs or a degenerate theta; and whenever it returns, no  *)
(* number in the returned mean and covariance is NaN or an infinity.       *)
(***************************************************************************)
C14_SingularRejected ==
    \A t \in KernelDone("conditional") :
        /\ (Len(thr[t].gp.x) > 0 /\ ~(Distinct(thr[t].gp.x) /\ HasInverse(thr[t].gp)))
              => thr[t].out.status = "raise"
        /\ thr[t].out.status = "ok"
              => ResultFinite(thr[t].out.value, Len(thr[t].gp.x_new))

C16_CovSymmetric ==
    \A t \in KernelDone("exponential_cov") :
        thr[t].gp.x_new = thr[t].gp.x =>
            /\ thr[t].out.status = "ok"
            /\ \A i, j \in DOMAIN thr[t].gp.x :
                  /\ thr[t].out.value[i][j] = thr[t].out.value[j][i]
                  /\ i = j => thr[t].out.value[i][j] = thr[t].gp.theta[1]

C16_Witness ==
    /\ thr[1].pc = "done"
    /\ thr[1].op = "exponential_cov"
    /\ thr[1].gp.x = <<0, 2>>
    /\ thr[1].gp.x_new = <<0, 2>>
    /\ thr[1].gp.theta = <<FInt(2), 1>>
    /\ thr[1].out.value = <<<<FInt(2), <<1, 8>>>>, <<<<1, 8>>, FInt(2)>>>>

(***************************************************************************)
(* Vocabulary of the sequential sampling properties.                       *)
(***************************************************************************)
IsPrefix(a, b) == Len(a) <= Len(b) /\ \A i \in DOMAIN a : a[i] = b[i]

(***************************************************************************)
(* C17: across the sequential sampling cells of Lab01 the lists x and y    *)
(* are append-only: every cell leaves the pairs already there where they   *)
(* are and adds new ones at the end only, so that the length never         *)
(* decreases.                                                              *)
(***************************************************************************)
C17_AppendOnly ==
    [][/\ IsPrefix(lab01.x, lab01'.x)
       /\ IsPrefix(lab01.y, lab01'.y)]_vars

C17_Witness ==
    /\ lab01.pc = 7
    /\ Len(lab01.x) = 7
    /\ Len(lab01.y) = 7
    /\ lab01.x[1] = FInt(1)
    /\ lab01.x[2] = <<-7, 10>>
    /\ lab01.y[2] = lab01.y2
    /\ lab01.y[1] # lab01.y[2]

(***************************************************************************)
(* C18: in every state the sequential sampling cells reach, the observed   *)
(* inputs x are pairwise distinct.                                         *)
(***************************************************************************)
C18_InputsDistinct == Distinct(lab01.x)

C18_Witness ==
    /\ lab01.pc = 7
    /\ Cardinality(Range(lab01.x)) = 7
    /\ Range(lab01.x_more) \subseteq Range(lab01.x)

(***************************************************************************)
(* C19: the covariance matrix is recomputed whenever the observations      *)
(* change: every predict call of the sequence is handed, as sigma, the     *)
(* array exponential_cov(x, x, theta) of the x it is handed as data, the   *)
(* current x, together with the current y; its dimension is                *)
(* len(x) = len(y).                                                        *)
(***************************************************************************)
C19_SigmaIsCurrent ==
    /\ Len(lab01.x) = Len(lab01.y)
    /\ \A i \in DOMAIN lab01.predictions :
          LET a == lab01.predictions[i].args
          IN  /\ a[2] = lab01.x
              /\ a[5] = lab01.y
              /\ a[4] = Call("exponential_cov", <<lab01.x, lab01.x, lab01.theta>>)
              /\ Len(a[4].args[1]) = Len(lab01.x)

C19_Witness ==
    /\ lab01.pc = 5
    /\ Len(lab01.predictions) = 2
    /\ lab01.predictions[1].args[4] = lab01.sigma_2
    /\ lab01.sigma_2 # lab01.sigma_1
    /\ Len(lab01.sigma_2.args[1]) = 2

(***************************************************************************)
(* C20: get_best_run(acc_hist, experiments) returns the maximum of         *)
(* acc_hist together with the Experiment at the first (lowest) index at    *)
(* which that maximum occurs: when several Experiments tie for the         *)
(* maximum, the earliest one wins.  (acc_hist holds one accuracy per       *)
(* Experiment, at least one.)                                              *)
(***************************************************************************)
C20_FirstMaximumWins ==
    (lab00.best # Raise("NameError") /\ Len(lab00.acc_hist) > 0) =>
        /\ lab00.best.status = "ok"
        /\ \E i \in DOMAIN lab00.acc_hist :
              /\ lab00.acc_hist[i] = lab00.best.value[1]
              /\ \A j \in DOMAIN lab00.acc_hist :
                    /\ ~FLess(lab00.acc_hist[i], lab00.acc_hist[j])
                    /\ j < i => FLess(lab00.acc_hist[j], lab00.acc_hist[i])
              /\ lab00.best.value[2] = lab00.experiments[i]

C20_Witness ==
    /\ Len(lab00.experiments) = 4
    /\ lab00.acc_hist = <<<<1, 3>>, <<2, 3>>, <<0, 1>>, <<2, 3>>>>
    /\ lab00.best = Ok(<<<<2, 3>>, lab00.experiments[2]>>)
    /\ lab00.experiments[2] # lab00.experiments[4]

(***************************************************************************)
(* Properties of the search cells of Lab00.                                *)
(***************************************************************************)
\* The Experiments e1 and e2 agree on every parameter but momentum.
OnlyMomentumDiffers(e1, e2) ==
    /\ e1["momentum"] # e2["momentum"]
    /\ \A k \in DOMAIN e1 : k # "momentum" => e1[k] = e2[k]

\* C21: in both search loops (grid search and random search) every accuracy
\* appended to acc_hist, from which get_best_run selects, was computed on
\* the validation partition; the test partition is never used for selection.
C21_ValidationSelects ==
    \A i \in DOMAIN lab00.run_hist : lab00.run_hist[i].on = "valid"

\* C22: in every call of run_experiment, train starts from weights that
\* net.reset() has just drawn (none is left from an earlier Experiment or
\* from Task 1), and the accuracy is computed on the weights that this
\* call's train has left; the statements run in the order unpack, reset,
\* train, test.
C22_ResetThenTrainThenTest ==
    /\ lab00.pc = "train" =>
          \A l \in ParamLayers : lab00.net[l] = Weights("reset", lab00.exp_counter)
    /\ lab00.pc = "append" =>
          /\ lab00.calls = <<"unpack", "reset", "train", "test">>
          /\ \A l \in ParamLayers :
                lab00.acc.net[l] = Weights("train", lab00.exp_counter)

\* The second Experiment is about to be trained: the first has left trained
\* weights, and they are gone.
C22_Witness ==
    /\ lab00.pc = "train"
    /\ lab00.exp_counter = 2
    /\ Len(lab00.acc_hist) = 1
    /\ \A l \in ParamLayers : lab00.net[l] = Weights("reset", 2)

\* What holds of the loop at every point (C23).
LoopInvariant ==
    /\ lab00.pc = "for" =>
          lab00.exp_counter = lab00.it /\ Len(lab00.acc_hist) = lab00.it
    /\ lab00.pc \in {"unpack", "reset", "train", "test", "append"} =>
          /\ lab00.exp_counter = lab00.it
          /\ Len(lab00.acc_hist) = lab00.it - 1
          /\ lab00.exp = lab00.experiments[lab00.it]
    /\ Len(lab00.run_hist) = Len(lab00.acc_hist)
    /\ \A i \in DOMAIN lab00.acc_hist :
          /\ lab00.run_hist[i].it = i
          /\ lab00.acc_hist[i] = lab00.run_hist[i].value
    /\ lab00.pc \in {"best", "done"} =>
          /\ lab00.exp_counter = Len(lab00.experiments)
          /\ Len(lab00.acc_hist) = Len(lab00.experiments)
    /\ lab00.pc = "done" =>
          /\ lab00.best.status = "ok"
          /\ \E i \in DOMAIN lab00.experiments :
                /\ lab00.best.value = <<lab00.run_hist[i].value, lab00.experiments[i]>>
                /\ \A j \in DOMAIN lab00.run_hist :
                      ~FLess(lab00.run_hist[i].value, lab00.run_hist[j].value)

\* C23: a search loop runs the elements of experiments once each, in list
\* order: after the k-th iteration exp_counter = k = len(acc_hist), the
\* i-th accuracy of acc_hist is the one obtained for experiments[i], the
\* Experiment get_best_run returns is the one that obtained the highest
\* accuracy, and the cell comes to its end.
C23_EveryExperimentOnce == []LoopInvariant /\ <>(lab00.pc = "done")

\* A loop over four Experiments has ended, the accuracies differing.
C23_Witness ==
    /\ lab00.pc = "done"
    /\ Len(lab00.experiments) = 4
    /\ lab00.exp_counter = 4
    /\ lab00.acc_hist = <<<<1, 3>>, <<2, 3>>, <<1, 3>>, <<2, 3>>>>
    /\ lab00.best = Ok(<<<<2, 3>>, lab00.experiments[2]>>)

\* C29: run_experiment passes the momentum of the Experiment to the
\* optimizer only when exp["optimizer"] is optim.SGD; any other optimizer
\* is built from the learning rate alone, so that two Experiments that
\* differ in momentum only and name another optimizer call train with the
\* same arguments.
C29_MomentumOnlyForSGD ==
    /\ lab00.pc \in {"reset", "train", "test", "append"} =>
          LET o == lab00.optimizer.value
          IN  /\ o.cls = lab00.exp["optimizer"]
              /\ o.kwargs.lr = lab00.exp["learning_rate"]
              /\ IF o.cls = "SGD"
                 THEN /\ DOMAIN o.kwargs = {"lr", "momentum"}
                      /\ o.kwargs.momentum = lab00.exp["momentum"]
                 ELSE DOMAIN o.kwargs = {"lr"}
    /\ \A i, j \in DOMAIN lab00.run_hist :
          (/\ lab00.experiments[i]["optimizer"] # "SGD"
           /\ OnlyMomentumDiffers(lab00.experiments[i], lab00.experiments[j]))
              => lab00.run_hist[i].run = lab00.run_hist[j].run

\* Two Adagrad Experiments that differ in momentum have been run.
C29_Witness ==
    \E i, j \in DOMAIN lab00.run_hist :
        /\ lab00.experiments[i]["optimizer"] = "Adagrad"
        /\ OnlyMomentumDiffers(lab00.experiments[i], lab00.experiments[j])
        /\ lab00.run_hist[i].run = lab00.run_hist[j].run
        /\ lab00.run_hist[i].run.optimizer.cls = "Adagrad"

\* C26: for a single query point q, predict(q, x, exponential_cov, theta,
\* exponential_cov(x, x, theta), y) has the outcome of conditional([q], x, y,
\* theta): the same posterior mean and the same posterior variance whenever
\* the covariance of x is invertible, and the same exception otherwise.
C26_PredictIsConditional ==
    \A t \in KernelDone("predict") :
        LET g == thr[t].gp
        IN  /\ thr[t].out = conditional(g.x_new, g.x, g.y, g.theta)
            /\ (Det(exponential_cov(g.x, g.x, g.theta)) # FInt(0) /\ Len(g.y) = Len(g.x))
                  => thr[t].out.status = "ok"

\* predict has returned for a query point between two observed points.
C26_Witness ==
    /\ thr[1].pc = "done"
    /\ thr[1].op = "predict"
    /\ thr[1].out.status = "ok"
    /\ thr[1].gp.x = <<0, 2>>
    /\ thr[1].gp.x_new = <<1>>
    /\ thr[1].gp.theta = <<FInt(2), 1>>
    /\ thr[1].out.value[1] # FInt(0)
    /\ thr[1].out.value[2] # FInt(0)
    /\ thr[1].out.value[2] # FInt(2)

(***************************************************************************)
(* Properties of the data loops.                                           *)
(***************************************************************************)
RECURSIVE SeqSum(_)
SeqSum(l) == IF l = <<>> THEN 0 ELSE Head(l) + SeqSum(Tail(l))

\* C24: load_mnist splits the N training rows into a training part of
\* int(N * train_fraction) rows and a validation part of the other rows:
\* the two parts are disjoint and together hold every row once, and the test
\* rows are returned as loaded.  60,000 rows at the fraction 0.8 give 48,000
\* and 12,000.
C24_SplitIsPartition ==
    /\ training_size(60000, <<4, 5>>) = 48000
    /\ 60000 - training_size(60000, <<4, 5>>) = 12000
    /\ \A t \in KernelDone("load_mnist") :
          LET a == thr[t].gp
              f == a.train_fraction
              out == thr[t].out
          IN  (f[1] >= 0 /\ f[1] <= f[2]) =>
                /\ out.status = "ok"
                /\ Len(out.value.train) * f[2] <= a.n_train * f[1]
                /\ (Len(out.value.train) + 1) * f[2] > a.n_train * f[1]
                /\ Len(out.value.valid) = a.n_train - Len(out.value.train)
                /\ \A r \in 0..(a.n_train - 1) :
                      Cardinality({i \in DOMAIN out.value.train : out.value.train[i] = r})
                        + Cardinality({i \in DOMAIN out.value.valid :
                                         out.value.valid[i] = r}) = 1
                /\ out.value.test = [i \in 1..a.n_test |-> i - 1]

\* Three rows split at one half: one training row, two validation rows.
C24_Witness ==
    /\ thr[1].pc = "done"
    /\ thr[1].op = "load_mnist"
    /\ thr[1].gp.train_fraction = <<1, 2>>
    /\ thr[1].gp.indices = <<2, 0, 1>>
    /\ thr[1].out = Ok([train |-> <<2>>, valid |-> <<0, 1>>, test |-> <<0, 1>>])

\* C27: for a batch_size of at least one, train of Lab00 performs in each
\* epoch ceil(N / batch_size) optimizer steps, on contiguous mini-batches
\* that do not overlap and together hold every training row once, the last
\* one alone being possibly shorter; each step calls zero_grad, forward,
\* loss, backward, step in that order, and loss_hist has
\* max_epochs * ceil(N / batch_size) entries.
C27_BatchesCoverEpoch ==
    \A t \in KernelDone("train") :
        LET a == thr[t].gp
            out == thr[t].out
            per == IF a.n = 0 THEN 0 ELSE ((a.n - 1) \div a.batch_size) + 1
        IN  a.batch_size >= 1 =>
              /\ out.status = "ok"
              /\ per * a.batch_size >= a.n
              /\ per > 0 => (per - 1) * a.batch_size < a.n
              /\ Len(out.value.steps) = a.max_epochs * per
              /\ Len(out.value.loss_hist) = a.max_epochs * per
              /\ \A e \in 0..(a.max_epochs - 1) : \A r \in 0..(a.n - 1) :
                    Cardinality({s \in DOMAIN out.value.steps :
                                   /\ out.value.steps[s].epoch = e
                                   /\ \E i \in DOMAIN out.value.steps[s].rows :
                                         out.value.steps[s].rows[i] = r}) = 1
              /\ \A s \in DOMAIN out.value.steps :
                    LET rows == out.value.steps[s].rows
                    IN  /\ Len(rows) >= 1
                        /\ Len(rows) <= a.batch_size
                        /\ \A i \in 1..(Len(rows) - 1) : rows[i + 1] = rows[i] + 1
                        /\ rows[1] = ((s - 1) % per) * a.batch_size
                        /\ Len(rows) < a.batch_size => s % per = 0
                        /\ out.value.steps[s].epoch = (s - 1) \div per
                        /\ out.value.steps[s].calls =
                              <<"zero_grad", "forward", "loss", "backward", "step">>

\* Two epochs over three rows in batches of two: the second batch is short.
C27_Witness ==
    /\ thr[1].pc = "done"
    /\ thr[1].op = "train"
    /\ thr[1].gp = [n |-> 3, batch_size |-> 2, max_epochs |-> 2]
    /\ Len(thr[1].out.value.steps) = 4
    /\ thr[1].out.value.steps[2].rows = <<2>>
    /\ thr[1].out.value.steps[3].rows = <<0, 1>>
    /\ Len(thr[1].out.value.loss_hist) = 4

\* C30: train of the Ray lab makes an optimizer step on the leading batches
\* with batch_idx * len(data) <= EPOCH_SIZE and returns at the first batch
\* beyond.  When these batches and the one it returns at are full batches
\* of size B, they are floor(EPOCH_SIZE / B) + 1 batches, more than
\* EPOCH_SIZE samples and at most EPOCH_SIZE + B; for B = 64 and
\* EPOCH_SIZE = 1024, 17 batches and 1088 samples.
C30_LeadingBatches ==
    \A t \in KernelDone("ray_train") :
        LET a == thr[t].gp
            lens == DataLoaderLens(a.n, a.batch_size)
            steps == thr[t].out.value
            k == Len(steps)
            full == (a.epoch_size \div a.batch_size) + 1
        IN  /\ k <= Len(lens)
            /\ steps = SubSeq(lens, 1, k)
            /\ \A i \in 1..k : (i - 1) * lens[i] <= a.epoch_size
            /\ k < Len(lens) => k * lens[k + 1] > a.epoch_size
            /\ (/\ a.n >= full * a.batch_size
                /\ Len(lens) > full => lens[full + 1] = a.batch_size) =>
                  /\ k = full
                  /\ SeqSum(steps) = full * a.batch_size
                  /\ SeqSum(steps) > a.epoch_size
                  /\ SeqSum(steps) <= a.epoch_size + a.batch_size
            /\ (a.n = 60000 /\ a.batch_size = 64 /\ a.epoch_size = 1024) =>
                  k = 17 /\ SeqSum(steps) = 1088

\* The call of the Ray lab itself: 17 batches of 64, 64 samples over.
C30_Witness ==
    /\ thr[1].pc = "done"
    /\ thr[1].op = "ray_train"
    /\ thr[1].gp = [n |-> 60000, batch_size |-> 64, epoch_size |-> EPOCH_SIZE]
    /\ thr[1].out.value = [i \in 1..17 |-> 64]
    /\ SeqSum(thr[1].out.value) = EPOCH_SIZE + 64

\* C28: get_random_grid returns the dict objects get_param_grid has built,
\* not copies: two draws of one grid position are one object and draws of
\* different positions are different objects, whose values are candidate
\* values of params; so an assignment into one returned Experiment shows in
\* every duplicate of it and in no other Experiment of the list.
C28_ReturnsReferences ==
    (last[1].op \in {"get_random_grid", "setitem"} /\ last[1].out.status = "ok") =>
        LET refs == last[1].out.value
            grid == get_param_grid(params).value
        IN  /\ \A i \in DOMAIN refs : refs[i] \in DOMAIN grid
            /\ \A i, j \in DOMAIN refs :
                  (heap[refs[i]].pos = heap[refs[j]].pos) <=> (refs[i] = refs[j])
            /\ last[1].op = "get_random_grid" =>
                  \A i \in DOMAIN refs : heap[refs[i]].d = grid[heap[refs[i]].pos]
            /\ last[1].op = "setitem" =>
                  \A i \in DOMAIN refs :
                      IF heap[refs[i]].pos = heap[refs[last[1].n.val]].pos
                      THEN heap[refs[i]].d[params[1].key] = 0
                      ELSE heap[refs[i]].d = grid[heap[refs[i]].pos]

\* Three draws, the first and the last of one grid position: the assignment
\* into the first shows in the last and not in the second.
C28_Witness ==
    /\ last[1].op = "setitem"
    /\ last[1].n.val = 1
    /\ Len(last[1].out.value) >= 2
    /\ \E i, j \in DOMAIN last[1].out.value :
          /\ i # 1 /\ last[1].out.value[i] = last[1].out.value[1]
          /\ heap[last[1].out.value[i]].d[params[1].key] = 0
          /\ last[1].out.value[j] # last[1].out.value[1]
          /\ heap[last[1].out.value[j]].d[params[1].key] # 0

\* What iteration i of train_mnist does: train, test, report, and the save
\* at iterations 0 and 5.
ExpectedIteration(i) ==
    <<<<"train", i>>, <<"test", i>>, <<"report", i>>>>
        \o (IF i \in {0, 5} THEN <<<<"save", i>>>> ELSE <<>>)

ExpectedTrial ==
    ExpectedIteration(0) \o ExpectedIteration(1) \o ExpectedIteration(2)
        \o ExpectedIteration(3) \o ExpectedIteration(4) \o ExpectedIteration(5)
        \o ExpectedIteration(6) \o ExpectedIteration(7) \o ExpectedIteration(8)
        \o ExpectedIteration(9)

\* C25: train_mnist runs the iterations 0..9, each one train, then test,
\* then tune.report of the accuracy that test returned; the model is saved
\* at iterations 0 and 5 only, after the report of that iteration.  A trial
\* that runs to completion has sent 10 reports and saved twice; a trial the
\* scheduler stops has done an initial part of the same sequence.
C25_TenIterations ==
    /\ Len(trial.log) <= Len(ExpectedTrial)
    /\ [k \in DOMAIN trial.log |-> <<trial.log[k].ev, trial.log[k].i>>]
          = SubSeq(ExpectedTrial, 1, Len(trial.log))
    /\ \A k \in DOMAIN trial.log :
          trial.log[k].ev = "report" =>
              /\ k > 1
              /\ trial.log[k - 1].ev = "test"
              /\ trial.log[k].acc = trial.log[k - 1].acc
    /\ trial.pc = "done" =>
          /\ Len(trial.log) = Len(ExpectedTrial)
          /\ Cardinality({k \in DOMAIN trial.log : trial.log[k].ev = "report"}) = 10
          /\ {trial.log[k].i : k \in {n \in DOMAIN trial.log : trial.log[n].ev = "save"}}
                = {0, 5}
    /\ trial.pc = "stopped" => trial.log[Len(trial.log)].ev = "report"

\* A trial that has run to completion, with two different accuracies
\* among its reports.
C25_Witness ==
    /\ trial.pc = "done"
    /\ trial.i = 9
    /\ trial.steps = 10 * 17
    /\ \E j, k \in DOMAIN trial.log :
          /\ trial.log[j].ev = "report" /\ trial.log[k].ev = "report"
          /\ trial.log[j].acc # trial.log[k].acc

====
